---------------------------- MODULE Spec2Model ----------------------------
(***************************************************************************)
(* A model of the org-viewer server core (src-tauri/src/server):           *)
(*   - projects.rs: the sandboxed project file handlers get_tree,          *)
(*     get_file, put_file, with build_tree and detect_language;            *)
(*   - mod.rs: the WebSocket session loop over the tokio broadcast channel *)
(*     and the listener bootstrap of start_server.                         *)
(*                                                                         *)
(* A path is a sequence of components, "/" standing for the root directory *)
(* component of an absolute path.  A name on disk is one string; where the *)
(* code looks into a name (its extension, its first character, its byte    *)
(* order) the model looks into Spell(name), its characters.  A file's data *)
(* is a sequence of bytes, a String a sequence of Unicode code points.     *)
(***************************************************************************)
EXTENDS Integers, Sequences, FiniteSets, TLC

VARIABLES
    fs,        \* the filesystem: canonical path -> entry
    last,      \* the last handler call with its response (NoCall: none)
    lastPut,   \* the successful PUTs whose file nothing has written since
    lang,      \* detect_language applied to one file name
    hub,       \* the broadcast channel: tail position, receiver count, slots
    conn,      \* per WebSocket connection: the session task's state
    boot,      \* start_server's progress, listeners and log
    walk       \* one build_tree in progress: its call stack and its result

vars == <<fs, last, lastPut, lang, hub, conn, boot, walk>>

---------------------------------------------------------------------------
(* Bounds of the model. *)

\* Longest String (in code points) a PUT body carries.
MaxLen == 1

---------------------------------------------------------------------------
(* Sequences. *)

Last(s) == s[Len(s)]

Front(s) == SubSeq(s, 1, Len(s) - 1)

IsPrefix(p, s) == Len(p) <= Len(s) /\ SubSeq(s, 1, Len(p)) = p

RECURSIVE Flatten(_)
Flatten(ss) == IF ss = <<>> THEN <<>> ELSE Head(ss) \o Flatten(Tail(ss))

SeqsUpTo(S, n) == UNION {[1..k -> S] : k \in 0..n}

---------------------------------------------------------------------------
(* Names on disk. *)

DOT == "."

\* Path components: the root directory, "." and "..".
ROOTDIR == "/"
CURDIR == "."
PARENTDIR == ".."

\* File and directory names.
n_etc == "etc"
n_pw == "pw"
n_org == "org"
n_projects == "projects"
n_alpha == "alpha"
n_beta == "beta"
n_ghost == "ghost"
n_notes == "n.md"
n_new == "new.md"
n_b == "b.md"
n_x == "x.md"
n_ext == "ext"
n_sub == "sub"
n_s == "s.go"
n_src == "src"
n_main == "main.go"
n_png == "x.png"
n_lib == "lib"
n_node_modules == "node_modules"
n_js == "x.js"
n_build == "build"
n_out == "out.js"
n_Zed == "Zed"
n_env == ".env"
n_docs == "docs"
n_a == "a.md"
n_Thumbs == "Thumbs.db"

\* The characters of each name.
Spell(name) ==
    CASE name = n_etc -> <<"e", "t", "c">>
      [] name = n_pw -> <<"p", "w">>
      [] name = n_org -> <<"o", "r", "g">>
      [] name = n_projects -> <<"p", "r", "o", "j", "e", "c", "t", "s">>
      [] name = n_alpha -> <<"a", "l", "p", "h", "a">>
      [] name = n_beta -> <<"b", "e", "t", "a">>
      [] name = n_ghost -> <<"g", "h", "o", "s", "t">>
      [] name = n_notes -> <<"n", ".", "m", "d">>
      [] name = n_new -> <<"n", "e", "w", ".", "m", "d">>
      [] name = n_b -> <<"b", ".", "m", "d">>
      [] name = n_x -> <<"x", ".", "m", "d">>
      [] name = n_ext -> <<"e", "x", "t">>
      [] name = n_sub -> <<"s", "u", "b">>
      [] name = n_s -> <<"s", ".", "g", "o">>
      [] name = n_src -> <<"s", "r", "c">>
      [] name = n_main -> <<"m", "a", "i", "n", ".", "g", "o">>
      [] name = n_png -> <<"x", ".", "p", "n", "g">>
      [] name = n_lib -> <<"l", "i", "b">>
      [] name = n_node_modules -> <<"n", "o", "d", "e", "_", "m", "o", "d", "u", "l", "e", "s">>
      [] name = n_js -> <<"x", ".", "j", "s">>
      [] name = n_build -> <<"b", "u", "i", "l", "d">>
      [] name = n_out -> <<"o", "u", "t", ".", "j", "s">>
      [] name = n_Zed -> <<"Z", "e", "d">>
      [] name = n_env -> <<".", "e", "n", "v">>
      [] name = n_docs -> <<"d", "o", "c", "s">>
      [] name = n_a -> <<"a", ".", "m", "d">>
      [] name = n_Thumbs -> <<"T", "h", "u", "m", "b", "s", ".", "d", "b">>

---------------------------------------------------------------------------
(* UTF-8: a String is written as bytes and read back by decoding them. *)

Utf8Char(cp) ==
    IF cp < 128 THEN <<cp>>
    ELSE IF cp < 2048 THEN <<192 + (cp \div 64), 128 + (cp % 64)>>
    ELSE <<224 + (cp \div 4096), 128 + ((cp \div 64) % 64), 128 + (cp % 64)>>

Utf8Encode(str) == Flatten([i \in 1..Len(str) |-> Utf8Char(str[i])])

IsCont(b) == b >= 128 /\ b < 192

\* A lossy decoder's answer to a malformed sequence: stop there, no error.
Truncated == [ok |-> TRUE, str |-> <<>>]

Invalid == [ok |-> FALSE, str |-> <<>>]

Decoded(cp, r) == IF r.ok THEN [ok |-> TRUE, str |-> <<cp>> \o r.str] ELSE Invalid

\* String::from_utf8: the decoded String, or an InvalidData error.
RECURSIVE Utf8Decode(_)
Utf8Decode(bytes) ==
    IF bytes = <<>> THEN [ok |-> TRUE, str |-> <<>>]
    ELSE LET b == bytes[1] IN
        IF b < 128 THEN Decoded(b, Utf8Decode(Tail(bytes)))
        ELSE IF b >= 194 /\ b < 224 /\ Len(bytes) >= 2 /\ IsCont(bytes[2]) THEN
            Decoded((b - 192) * 64 + (bytes[2] - 128),
                    Utf8Decode(SubSeq(bytes, 3, Len(bytes))))
        ELSE IF b >= 224 /\ b < 240 /\ Len(bytes) >= 3
                /\ IsCont(bytes[2]) /\ IsCont(bytes[3])
                /\ (b - 224) * 4096 + (bytes[2] - 128) * 64 >= 2048 THEN
            Decoded((b - 224) * 4096 + (bytes[2] - 128) * 64 + (bytes[3] - 128),
                    Utf8Decode(SubSeq(bytes, 4, Len(bytes))))
        ELSE Invalid

---------------------------------------------------------------------------
(* The filesystem. *)

NoEntry == [kind |-> "none", data |-> <<>>, target |-> <<>>]
DirEntry == [kind |-> "dir", data |-> <<>>, target |-> <<>>]
FileEntry(bytes) == [kind |-> "file", data |-> bytes, target |-> <<>>]
LinkEntry(path) == [kind |-> "symlink", data |-> <<>>, target |-> path]

\* AppState.org_root, and the directory every handler joins to it.
OrgRoot == <<n_org>>
ProjectsDir == OrgRoot \o <<n_projects>>

p_etc == <<n_etc>>
p_pw == <<n_etc, n_pw>>
p_x == OrgRoot \o <<n_x>>
p_alpha == ProjectsDir \o <<n_alpha>>
p_beta == ProjectsDir \o <<n_beta>>
p_notes == p_alpha \o <<n_notes>>
p_new == p_alpha \o <<n_new>>
p_ext == p_alpha \o <<n_ext>>
p_sub == p_alpha \o <<n_sub>>
p_s == p_sub \o <<n_s>>
p_b == p_beta \o <<n_b>>

p_src == p_alpha \o <<n_src>>
p_main == p_src \o <<n_main>>
p_png == p_src \o <<n_png>>
p_lib == p_src \o <<n_lib>>
p_node_modules == p_alpha \o <<n_node_modules>>
p_js == p_node_modules \o <<n_js>>
p_build == p_alpha \o <<n_build>>
p_out == p_build \o <<n_out>>
p_Zed == p_alpha \o <<n_Zed>>
p_env == p_alpha \o <<n_env>>
p_docs == p_alpha \o <<n_docs>>
p_a == p_docs \o <<n_a>>
p_libenv == p_lib \o <<n_env>>
p_Thumbs == p_alpha \o <<n_Thumbs>>

\* The places the handler specification uses.
BaseNodes ==
    {<<>>, p_etc, p_pw, OrgRoot, p_x, ProjectsDir, p_alpha, p_beta,
     p_notes, p_new, p_ext, p_sub, p_s, p_b}

\* The places project alpha gains in the tree specification.
TreeNodes ==
    {p_src, p_main, p_png, p_lib, p_node_modules, p_js, p_build, p_out,
     p_Zed, p_env, p_docs, p_a, p_libenv, p_Thumbs}

\* Every place of the disk the model tracks.
Nodes == BaseNodes \cup TreeNodes

Exists(f, p) == p \in Nodes /\ f[p].kind # "none"

Parent(p) == IF p = <<>> THEN <<>> ELSE Front(p)

\* Symbolic links followed while resolving one path before ELOOP.
MaxSymlinks == 40

\* realpath: walk `rest` from the canonical directory `cur`, following
\* symbolic links; every component is looked up in a directory.
RECURSIVE Walk(_, _, _, _)
Walk(f, cur, rest, fuel) ==
    IF rest = <<>> THEN [ok |-> TRUE, path |-> cur]
    ELSE LET c == Head(rest)
             more == Tail(rest)
         IN
         IF c = ROOTDIR THEN Walk(f, <<>>, more, fuel)
         ELSE IF ~Exists(f, cur) \/ f[cur].kind # "dir" THEN [ok |-> FALSE, path |-> <<>>]
         ELSE IF c = CURDIR THEN Walk(f, cur, more, fuel)
         ELSE IF c = PARENTDIR THEN Walk(f, Parent(cur), more, fuel)
         ELSE LET child == cur \o <<c>> IN
              IF ~Exists(f, child) THEN [ok |-> FALSE, path |-> <<>>]
              ELSE IF f[child].kind = "symlink" THEN
                  IF fuel = 0 THEN [ok |-> FALSE, path |-> <<>>]
                  ELSE Walk(f, cur, f[child].target \o more, fuel - 1)
              ELSE Walk(f, child, more, fuel)

\* Path::canonicalize of an absolute path.
Canonicalize(f, path) == Walk(f, <<>>, path, MaxSymlinks)

\* PathBuf::join: an absolute argument replaces the base.
Join(base, path) ==
    IF path # <<>> /\ Head(path) = ROOTDIR THEN path ELSE base \o path

\* A guard that compares with org_root instead of org_root/projects.
StartsWithOrgRoot(path, base) == IsPrefix(OrgRoot, path)

\* Path::starts_with: whole components.
StartsWith(path, base) == IsPrefix(base, path)

\* Path::is_dir / Path::is_file: the metadata of what the path resolves to.
\* An is_dir that answers yes without looking at the disk.
AnyPathIsDir(f, path) == TRUE

IsDir(f, path) ==
    LET r == Canonicalize(f, path) IN r.ok /\ f[r.path].kind = "dir"

IsFile(f, path) ==
    LET r == Canonicalize(f, path) IN r.ok /\ f[r.path].kind = "file"

---------------------------------------------------------------------------
(* Exclusion and language tables of projects.rs. *)

EXCLUDED_DIRS ==
    {
     "node_modules",
     ".git",
     ".obsidian",
     "dist",
     "build",
     "target",
     "__pycache__",
     ".next",
     ".turbo",
     ".cargo",
     ".cache",
     ".parcel-cache",
     "coverage",
     ".svelte-kit",
     ".nuxt",
     ".output",
     "vendor",
     ".vercel"
    }

EXCLUDED_FILES ==
    {
     ".DS_Store",
     "Thumbs.db",
     ".env",
     ".env.local"
    }

\* An exclusion that never drops a directory.
ExcludesFilesOnly(name, is_dir) == ~is_dir /\ name \in EXCLUDED_FILES

should_exclude_entry(name, is_dir) ==
    IF is_dir THEN name \in EXCLUDED_DIRS ELSE name \in EXCLUDED_FILES

\* The index of the last "." of a name, 0 when it has none.
LastDot(name) ==
    LET dots == {i \in 1..Len(name) : name[i] = DOT} IN
    IF dots = {} THEN 0 ELSE CHOOSE i \in dots : \A j \in dots : j <= i

\* filename.rsplit('.').next(): the text after the last ".", and the whole
\* name when it holds no "." (rsplit always yields one piece).
RsplitDotFirst(name) == SubSeq(name, LastDot(name) + 1, Len(name))

NoLanguage == "none"

LanguageOf(ext) ==
    CASE ext \in {<<"r", "s">>} -> "rust"
      [] ext \in {<<"t", "s">>} -> "typescript"
      [] ext \in {<<"t", "s", "x">>} -> "typescriptJsx"
      [] ext \in {<<"j", "s">>} -> "javascript"
      [] ext \in {<<"j", "s", "x">>} -> "javascriptJsx"
      [] ext \in {<<"p", "y">>} -> "python"
      [] ext \in {<<"j", "s", "o", "n">>} -> "json"
      [] ext \in {<<"m", "d">>, <<"m", "a", "r", "k", "d", "o", "w", "n">>} -> "markdown"
      [] ext \in {<<"c", "s", "s">>} -> "css"
      [] ext \in {<<"s", "c", "s", "s">>, <<"s", "a", "s", "s">>} -> "css"
      [] ext \in {<<"h", "t", "m", "l">>, <<"h", "t", "m">>} -> "html"
      [] ext \in {<<"t", "o", "m", "l">>} -> "toml"
      [] ext \in {<<"y", "a", "m", "l">>, <<"y", "m", "l">>} -> "yaml"
      [] ext \in {<<"s", "q", "l">>} -> "sql"
      [] ext \in {<<"s", "h">>, <<"b", "a", "s", "h">>, <<"z", "s", "h">>} -> "shell"
      [] ext \in {<<"p", "s", "1">>} -> "powershell"
      [] ext \in {<<"x", "m", "l">>, <<"s", "v", "g">>} -> "xml"
      [] ext \in {<<"g", "o">>} -> "go"
      [] ext \in {<<"j", "a", "v", "a">>} -> "java"
      [] ext \in {<<"c">>, <<"h">>} -> "c"
      [] ext \in {<<"c", "p", "p">>, <<"c", "c">>, <<"c", "x", "x">>, <<"h", "p", "p">>} -> "cpp"
      [] ext \in {<<"l", "u", "a">>} -> "lua"
      [] ext \in {<<"r", "b">>} -> "ruby"
      [] ext \in {<<"p", "h", "p">>} -> "php"
      [] ext \in {<<"s", "w", "i", "f", "t">>} -> "swift"
      [] ext \in {<<"k", "t">>, <<"k", "t", "s">>} -> "kotlin"
      [] ext \in {<<"d", "a", "r", "t">>} -> "dart"
      [] ext \in {<<"l", "o", "c", "k">>} -> "json"
      [] OTHER -> NoLanguage

detect_language(filename) == LanguageOf(RsplitDotFirst(filename))

BinaryExtensions ==
    {
     <<"p", "n", "g">>, <<"j", "p", "g">>, <<"j", "p", "e", "g">>, <<"g", "i", "f">>, <<"i", "c", "o">>, <<"b", "m", "p">>, <<"w", "e", "b", "p">>, <<"s", "v", "g">>,
     <<"w", "o", "f", "f">>, <<"w", "o", "f", "f", "2">>, <<"t", "t", "f">>, <<"o", "t", "f">>, <<"e", "o", "t">>,
     <<"z", "i", "p">>, <<"t", "a", "r">>, <<"g", "z">>, <<"b", "z", "2">>, <<"x", "z">>, <<"7", "z">>,
     <<"e", "x", "e">>, <<"d", "l", "l">>, <<"s", "o">>, <<"d", "y", "l", "i", "b">>,
     <<"p", "d", "f">>, <<"d", "o", "c">>, <<"d", "o", "c", "x">>, <<"x", "l", "s">>, <<"x", "l", "s", "x">>,
     <<"m", "p", "3">>, <<"m", "p", "4">>, <<"w", "a", "v">>, <<"a", "v", "i">>, <<"m", "k", "v">>, <<"f", "l", "a", "c">>,
     <<"d", "b">>, <<"s", "q", "l", "i", "t", "e">>, <<"s", "q", "l", "i", "t", "e", "3">>,
     <<"w", "a", "s", "m">>, <<"m", "a", "p">>
    }

is_binary_extension(filename) == RsplitDotFirst(filename) \in BinaryExtensions

---------------------------------------------------------------------------
(* Byte order of names: OsStr comparison is bytewise. *)

\* The characters names are written in, in ASCII order, and their codes.
AsciiChars ==
    <<
      "-", ".", "0", "1", "2", "3", "4", "5", "6", "7", "8", "9", "A",
      "B", "C", "D", "E", "F", "G", "H", "I", "J", "K", "L", "M", "N",
      "O", "P", "Q", "R", "S", "T", "U", "V", "W", "X", "Y", "Z", "_",
      "a", "b", "c", "d", "e", "f", "g", "h", "i", "j", "k", "l", "m",
      "n", "o", "p", "q", "r", "s", "t", "u", "v", "w", "x", "y", "z"
    >>

AsciiCodes ==
    <<
      45, 46, 48, 49, 50, 51, 52, 53, 54, 55, 56, 57, 65,
      66, 67, 68, 69, 70, 71, 72, 73, 74, 75, 76, 77, 78,
      79, 80, 81, 82, 83, 84, 85, 86, 87, 88, 89, 90, 95,
      97, 98, 99, 100, 101, 102, 103, 104, 105, 106, 107, 108, 109,
      110, 111, 112, 113, 114, 115, 116, 117, 118, 119, 120, 121, 122
    >>

Code(c) == AsciiCodes[CHOOSE i \in 1..Len(AsciiChars) : AsciiChars[i] = c]

\* a.cmp(b) = Less on two names.
RECURSIVE NameLess(_, _)
NameLess(a, b) ==
    IF b = <<>> THEN FALSE
    ELSE IF a = <<>> THEN TRUE
    ELSE IF Code(Head(a)) # Code(Head(b)) THEN Code(Head(a)) < Code(Head(b))
    ELSE NameLess(Tail(a), Tail(b))

---------------------------------------------------------------------------
(* build_tree. *)

\* The names in directory `dir`.
Children(f, dir) ==
    {Last(p) : p \in {q \in Nodes :
                        Len(q) = Len(dir) + 1 /\ IsPrefix(dir, q) /\ Exists(f, q)}}

RECURSIVE SetToSeq(_)
SetToSeq(S) ==
    IF S = {} THEN <<>>
    ELSE LET x == CHOOSE y \in S : TRUE IN <<x>> \o SetToSeq(S \ {x})

RemoveAt(s, i) == SubSeq(s, 1, i - 1) \o SubSeq(s, i + 1, Len(s))

\* The k-th arrangement of s (factorial number system): every arrangement
\* of a sequence of n elements is the k-th for some k < n!.
RECURSIVE NthPerm(_, _)
NthPerm(s, k) ==
    IF s = <<>> THEN <<>>
    ELSE LET i == (k % Len(s)) + 1 IN
         <<s[i]>> \o NthPerm(RemoveAt(s, i), k \div Len(s))

\* std::fs::read_dir(dir) collected: the entries in the order the
\* filesystem enumerates them, which `seed` selects; Err for no directory.
ReadDir(f, dir, seed) ==
    LET real == Canonicalize(f, dir) IN
    IF real.ok /\ f[real.path].kind = "dir"
    THEN [ok |-> TRUE, names |-> NthPerm(SetToSeq(Children(f, real.path)), seed)]
    ELSE [ok |-> FALSE, names |-> <<>>]

\* What the entry `name` of the directory `dir` is on disk; the entry
\* itself is not followed when it is a symbolic link.
Entry(f, dir, name) == f[Canonicalize(f, dir).path \o <<name>>]

\* entry.path().is_dir(): the test on what the entry resolves to, a
\* symbolic link followed.
EntryPathIsDir(f, dir, name) ==
    LET r == Canonicalize(f, dir \o <<name>>) IN r.ok /\ f[r.path].kind = "dir"

\* DirEntry::file_type().is_dir()
EntryIsDir(f, dir, name) == Entry(f, dir, name).kind = "dir"

\* The comparator of dir_entries.sort_by: is a Less than b.
EntryLess(f, dir, a, b) ==
    LET a_is_dir == EntryIsDir(f, dir, a)
        b_is_dir == EntryIsDir(f, dir, b)
    IN  IF a_is_dir /\ ~b_is_dir THEN TRUE
        ELSE IF ~a_is_dir /\ b_is_dir THEN FALSE
        ELSE NameLess(Spell(a), Spell(b))

\* x put into the sorted sequence s before the first element greater than x.
RECURSIVE InsertSorted(_, _, _, _)
InsertSorted(f, dir, s, x) ==
    IF s = <<>> THEN <<x>>
    ELSE IF EntryLess(f, dir, x, Head(s)) THEN <<x>> \o s
    ELSE <<Head(s)>> \o InsertSorted(f, dir, Tail(s), x)

\* No sort: the entries as the filesystem enumerates them.
AsEnumerated(f, dir, s) == s

\* slice::sort_by, a stable sort.
RECURSIVE SortEntries(_, _, _)
SortEntries(f, dir, s) ==
    IF s = <<>> THEN <<>>
    ELSE InsertSorted(f, dir, SortEntries(f, dir, Front(s)), Last(s))

NoSize == -1

\* The text of a path, components joined by "/".
RECURSIVE PathText(_)
PathText(p) ==
    IF p = <<>> THEN <<>>
    ELSE IF Head(p) = ROOTDIR THEN <<"/">> \o PathText(Tail(p))
    ELSE IF Len(p) = 1 THEN Spell(Head(p))
    ELSE Spell(Head(p)) \o <<"/">> \o PathText(Tail(p))

\* DirEntry::metadata().len(): of the entry itself (a link's own length).
EntrySize(e) ==
    IF e.kind = "file" THEN Len(e.data)
    ELSE IF e.kind = "symlink" THEN Len(PathText(e.target))
    ELSE 0

DirNode(name, rel, children) ==
    [name |-> name, path |-> rel, is_dir |-> TRUE, size |-> NoSize,
     language |-> NoLanguage, children |-> children]

FileNode(name, rel, size, language) ==
    [name |-> name, path |-> rel, is_dir |-> FALSE, size |-> size,
     language |-> language, children |-> <<>>]

\* A listing that keeps a directory with nothing to show.
KeepsEmptyDirectories(children) == FALSE

\* children.is_empty(): the directory is skipped.
children_is_empty(children) == children = <<>>

RECURSIVE build_tree(_, _, _, _)
RECURSIVE BuildEntries(_, _, _, _, _)

\* The body of build_tree's loop over the sorted entries.
BuildEntries(f, dir, project_root, seed, entries) ==
    IF entries = <<>> THEN <<>>
    ELSE LET name == Head(entries)
             is_dir == EntryIsDir(f, dir, name)
             path == dir \o <<name>>
             relative_path == SubSeq(path, Len(project_root) + 1, Len(path))
             rest == BuildEntries(f, dir, project_root, seed, Tail(entries))
         IN
         IF should_exclude_entry(name, is_dir) THEN rest
         ELSE IF Head(Spell(name)) = DOT THEN rest
         ELSE IF is_dir THEN
             LET children == build_tree(f, path, project_root, seed) IN
             IF children_is_empty(children) THEN rest
             ELSE <<DirNode(name, relative_path, children)>> \o rest
         ELSE IF is_binary_extension(Spell(name)) THEN rest
         ELSE <<FileNode(name, relative_path, EntrySize(Entry(f, dir, name)),
                        detect_language(Spell(name)))>> \o rest

build_tree(f, dir, project_root, seed) ==
    LET reader == ReadDir(f, dir, seed) IN
    IF ~reader.ok THEN <<>>
    ELSE BuildEntries(f, dir, project_root, seed,
                      SortEntries(f, dir, reader.names))

---------------------------------------------------------------------------
(* build_tree one entry at a time: the recursion as a stack of calls.    *)
(* A frame is one call: its directory, the sorted entries it has yet to  *)
(* look at (the first is the one it is at) and the nodes it has pushed.  *)

WalkIdle == [pc |-> "idle", seed |-> 0, stack |-> <<>>, result |-> <<>>]

\* The calls of build_tree the thread's stack has room for: one more and
\* the process is aborted.
MaxCalls == 6

\* A call of build_tree(dir, ..) up to its loop: read_dir, collect, sort.
Frame(f, dir, seed) ==
    LET reader == ReadDir(f, dir, seed) IN
    [dir |-> dir,
     todo |-> IF reader.ok THEN SortEntries(f, dir, reader.names) ELSE <<>>,
     out |-> <<>>]

\* get_tree calls build_tree(&project_dir, &project_dir).
WalkCall(project_root, seed) ==
    /\ walk.pc = "idle"
    /\ IsDir(fs, project_root)
    /\ walk' = [walk EXCEPT !.pc = "running", !.seed = seed,
                            !.stack = <<Frame(fs, project_root, seed)>>]
    /\ UNCHANGED <<fs, last, lastPut>>

\* The innermost call of build_tree(.., project_root) takes one step: it
\* looks at its next entry (skips it, pushes its file node, or calls
\* itself on it), or it returns its entries to its caller, which pushes
\* the directory's node unless the entries are empty.  A call that finds
\* no room on the stack ends everything.
WalkStep(project_root) ==
    /\ walk.pc = "running"
    /\ LET depth == Len(walk.stack)
           top == walk.stack[depth]
           below == SubSeq(walk.stack, 1, depth - 1)
       IN
       IF top.todo = <<>> THEN
           IF depth = 1
           THEN walk' = [walk EXCEPT !.pc = "done", !.stack = <<>>,
                                     !.result = top.out]
           ELSE LET caller == walk.stack[depth - 1]
                    name == Head(caller.todo)
                    path == caller.dir \o <<name>>
                    relative_path == SubSeq(path, Len(project_root) + 1, Len(path))
                    children == top.out
                IN  walk' = [walk EXCEPT !.stack =
                        SubSeq(walk.stack, 1, depth - 2) \o
                        <<[caller EXCEPT
                             !.todo = Tail(@),
                             !.out = IF children_is_empty(children) THEN @
                                     ELSE Append(@, DirNode(name, relative_path,
                                                            children))]>>]
       ELSE LET name == Head(top.todo)
                is_dir == EntryIsDir(fs, top.dir, name)
                path == top.dir \o <<name>>
                relative_path == SubSeq(path, Len(project_root) + 1, Len(path))
                skip == [top EXCEPT !.todo = Tail(@)]
            IN
            IF should_exclude_entry(name, is_dir) \/ Head(Spell(name)) = DOT
            THEN walk' = [walk EXCEPT !.stack = below \o <<skip>>]
            ELSE IF is_dir
            THEN IF depth = MaxCalls
                 THEN walk' = [walk EXCEPT !.pc = "overflow"]
                 ELSE walk' = [walk EXCEPT !.stack =
                                  @ \o <<Frame(fs, path, walk.seed)>>]
            ELSE IF is_binary_extension(Spell(name))
            THEN walk' = [walk EXCEPT !.stack = below \o <<skip>>]
            ELSE walk' = [walk EXCEPT !.stack = below \o
                    <<[skip EXCEPT !.out =
                         Append(@, FileNode(name, relative_path,
                                            EntrySize(Entry(fs, top.dir, name)),
                                            detect_language(Spell(name))))]>>]
    /\ UNCHANGED <<fs, last, lastPut>>

---------------------------------------------------------------------------
(* The handlers of projects.rs.  Each is one step: the request in, the     *)
(* response and the filesystem's change out.  `last` holds the call and    *)
(* its response until the response has left (Respond); a handler reads     *)
(* nothing of an earlier call.                                             *)

OK == 200
FORBIDDEN == 403
NOT_FOUND == 404
INTERNAL_SERVER_ERROR == 500

NoCall ==
    [op |-> "none", name |-> <<>>, path |-> <<>>, body |-> <<>>, status |-> 0,
     content |-> <<>>, size |-> NoSize, language |-> NoLanguage,
     tree |-> <<>>, log |-> <<>>, canonical_path |-> <<>>]

\* state.org_root.join("projects").join(&name)
ProjectPath(name) == Join(ProjectsDir, name)

\* state.org_root.join("projects").join(&name).join(&file_path)
FullPath(name, file_path) == Join(ProjectPath(name), file_path)

\* The status and body of get_tree.
GetTreeResult(f, name, seed) ==
    LET project_dir == ProjectPath(name)
        canonical_projects == Canonicalize(f, ProjectsDir)
        canonical_project == Canonicalize(f, project_dir)
        err(code) == [status |-> code, tree |-> <<>>]
    IN  IF ~IsDir(f, project_dir) THEN err(NOT_FOUND)
        ELSE IF ~canonical_projects.ok THEN err(INTERNAL_SERVER_ERROR)
        ELSE IF ~canonical_project.ok THEN err(NOT_FOUND)
        ELSE IF ~StartsWith(canonical_project.path, canonical_projects.path)
            THEN err(FORBIDDEN)
        ELSE [status |-> OK,
              tree |-> build_tree(f, project_dir, project_dir, seed)]

\* The status, body and log lines of get_file.
GetFileResult(f, name, file_path) ==
    LET full_path == FullPath(name, file_path)
        canonical_projects == Canonicalize(f, ProjectsDir)
        canonical_path == Canonicalize(f, full_path)
        err(code, log) ==
            [status |-> code, content |-> <<>>, size |-> NoSize,
             language |-> NoLanguage, log |-> log]
    IN  IF ~canonical_projects.ok THEN err(INTERNAL_SERVER_ERROR, <<>>)
        ELSE IF ~canonical_path.ok THEN err(NOT_FOUND, <<>>)
        ELSE IF ~StartsWith(canonical_path.path, canonical_projects.path)
            THEN err(FORBIDDEN, <<>>)
        ELSE IF f[canonical_path.path].kind # "file" THEN err(NOT_FOUND, <<>>)
        ELSE LET content == Utf8Decode(f[canonical_path.path].data) IN
             IF ~content.ok
             THEN err(INTERNAL_SERVER_ERROR, <<"Failed to read file">>)
             ELSE [status |-> OK,
                   content |-> content.str,
                   size |-> Len(f[canonical_path.path].data),
                   language |-> detect_language(Spell(Last(canonical_path.path))),
                   log |-> <<>>]

\* A guard that lets a PUT create a missing file of an existing directory.
PutFileGuardCreating(f, name, file_path) ==
    LET full_path == FullPath(name, file_path)
        canonical_projects == Canonicalize(f, ProjectsDir)
        canonical_path == Canonicalize(f, full_path)
        canonical_dir == Canonicalize(f, Front(full_path))
        err(code, log) == [ok |-> FALSE, status |-> code, path |-> <<>>, log |-> log]
        target == IF canonical_path.ok THEN canonical_path.path
                  ELSE canonical_dir.path \o <<Last(full_path)>>
    IN  IF ~canonical_projects.ok THEN err(INTERNAL_SERVER_ERROR, <<>>)
        ELSE IF ~canonical_path.ok /\ ~canonical_dir.ok THEN err(NOT_FOUND, <<>>)
        ELSE IF ~StartsWith(target, canonical_projects.path)
            THEN err(FORBIDDEN, <<"PUT rejected - path traversal">>)
        ELSE [ok |-> TRUE, status |-> OK, path |-> target, log |-> <<>>]

\* The path put_file writes to, when its checks pass (else ok is FALSE and
\* status the error).
PutFileGuard(f, name, file_path) ==
    LET full_path == FullPath(name, file_path)
        canonical_projects == Canonicalize(f, ProjectsDir)
        canonical_path == Canonicalize(f, full_path)
        err(code, log) == [ok |-> FALSE, status |-> code, path |-> <<>>, log |-> log]
    IN  IF ~canonical_projects.ok THEN err(INTERNAL_SERVER_ERROR, <<>>)
        ELSE IF ~canonical_path.ok THEN err(NOT_FOUND, <<>>)
        ELSE IF ~StartsWith(canonical_path.path, canonical_projects.path)
            THEN err(FORBIDDEN, <<"PUT rejected - path traversal">>)
        ELSE [ok |-> TRUE, status |-> OK, path |-> canonical_path.path, log |-> <<>>]

\* A write that opens the file for append instead of truncating it.
FsWriteAppend(f, path, bytes) ==
    IF Exists(f, path) /\ f[path].kind = "file"
    THEN [ok |-> TRUE, path |-> path,
          fs |-> [f EXCEPT ![path] = FileEntry(f[path].data \o bytes)]]
    ELSE [ok |-> FALSE, path |-> <<>>, fs |-> f]

\* open(path, O_WRONLY | O_CREAT | O_TRUNC): the place of the file it
\* opens or creates, or an error (no such directory, a directory in the
\* way, too many links, a place the model does not track).
RECURSIVE OpenTarget(_, _, _)
OpenTarget(f, path, fuel) ==
    LET dir == Canonicalize(f, Parent(path))
        child == dir.path \o <<Last(path)>>
        no == [ok |-> FALSE, path |-> <<>>]
    IN  IF path = <<>> \/ Last(path) \in {ROOTDIR, CURDIR, PARENTDIR} THEN no
        ELSE IF ~dir.ok \/ f[dir.path].kind # "dir" THEN no
        ELSE IF child \notin Nodes THEN no
        ELSE IF f[child].kind = "symlink"
            THEN IF fuel = 0 THEN no
                 ELSE OpenTarget(f, Join(dir.path, f[child].target), fuel - 1)
        ELSE IF f[child].kind = "dir" THEN no
        ELSE [ok |-> TRUE, path |-> child]

\* tokio::fs::write(path, content): create-or-truncate, then write all.
\* The filesystem after it, or an error when the path cannot be opened
\* for writing.
\* The file it opens is the one the path names when the call is made:
\* the directory is resolved then, and a symbolic link in the last place
\* is followed.  `path` in the result is the file written.
FsWrite(f, path, bytes) ==
    LET t == OpenTarget(f, path, MaxSymlinks) IN
    IF ~t.ok THEN [ok |-> FALSE, path |-> <<>>, fs |-> f]
    ELSE [ok |-> TRUE, path |-> t.path,
          fs |-> [f EXCEPT ![t.path] = FileEntry(bytes)]]

GetTree(name, seed) ==
    /\ last = NoCall
    /\ \E r \in {GetTreeResult(fs, name, seed)} :
        /\ last' = [NoCall EXCEPT !.op = "tree", !.name = name,
                                  !.status = r.status, !.tree = r.tree]
        /\ UNCHANGED <<fs, lastPut>>

GetFile(name, file_path) ==
    /\ last = NoCall
    /\ \E r \in {GetFileResult(fs, name, file_path)} :
        /\ last' = [NoCall EXCEPT !.op = "get", !.name = name, !.path = file_path,
                                  !.status = r.status, !.content = r.content,
                                  !.size = r.size, !.language = r.language,
                                  !.log = r.log]
        /\ UNCHANGED <<fs, lastPut>>

\* put_file: the entry log line, the guard, the write, the outcome's line.
PutFile(name, file_path, content) ==
    /\ last = NoCall
    /\ \E g \in {PutFileGuard(fs, name, file_path)},
          call \in {[NoCall EXCEPT !.op = "put", !.name = name,
                                   !.path = file_path, !.body = content]} :
        IF ~g.ok THEN
            /\ last' = [call EXCEPT !.status = g.status, !.log = <<"PUT">> \o g.log]
            /\ UNCHANGED <<fs, lastPut>>
        ELSE \E w \in {FsWrite(fs, g.path, Utf8Encode(content))} :
            IF ~w.ok THEN
                /\ last' = [call EXCEPT !.status = INTERNAL_SERVER_ERROR,
                                        !.log = <<"PUT", "PUT failed to write">>]
                /\ UNCHANGED <<fs, lastPut>>
            ELSE
                /\ fs' = w.fs
                /\ last' = [call EXCEPT !.status = OK,
                                        !.log = <<"PUT", "PUT success">>]
                /\ lastPut' = {r \in lastPut : r.target # g.path}
                                 \cup {[target |-> g.path, name |-> name,
                                         path |-> file_path, body |-> content]}

\* put_file up to its write: the entry log line and the guard.  A call
\* that passes is left at the write (status 0) with the path it resolved.
PutFileCheck(name, file_path, content) ==
    /\ last = NoCall
    /\ \E g \in {PutFileGuard(fs, name, file_path)},
          call \in {[NoCall EXCEPT !.op = "put", !.name = name,
                                   !.path = file_path, !.body = content]} :
          last' = IF ~g.ok
                  THEN [call EXCEPT !.status = g.status, !.log = <<"PUT">> \o g.log]
                  ELSE [call EXCEPT !.canonical_path = g.path, !.log = <<"PUT">>]
    /\ UNCHANGED <<fs, lastPut>>

\* A put_file is at its write.
AtWrite == last.op = "put" /\ last.status = 0

\* put_file from its write on: tokio::fs::write of the path resolved
\* before, on the disk as it is now, and the outcome's line.
PutFileWrite ==
    /\ AtWrite
    /\ \E w \in {FsWrite(fs, last.canonical_path, Utf8Encode(last.body))} :
        IF ~w.ok THEN
            /\ last' = [last EXCEPT !.status = INTERNAL_SERVER_ERROR,
                                    !.log = <<"PUT", "PUT failed to write">>]
            /\ UNCHANGED <<fs, lastPut>>
        ELSE
            /\ fs' = w.fs
            /\ last' = [last EXCEPT !.status = OK,
                                    !.log = <<"PUT", "PUT success">>]
            /\ lastPut' = {r \in lastPut : r.target # w.path}
                             \cup {[target |-> w.path, name |-> last.name,
                                     path |-> last.path, body |-> last.body]}

\* get_file up to its read: the guard, the is_file test and
\* read_to_string.  A call that has read its content is left at the
\* metadata call (status 0) with the content and the path it resolved.
GetFileRead(name, file_path) ==
    /\ last = NoCall
    /\ \E r \in {GetFileResult(fs, name, file_path)},
          call \in {[NoCall EXCEPT !.op = "get", !.name = name,
                                   !.path = file_path]} :
          last' = IF r.status # OK
                  THEN [call EXCEPT !.status = r.status, !.log = r.log]
                  ELSE [call EXCEPT
                          !.content = r.content,
                          !.canonical_path =
                              Canonicalize(fs, FullPath(name, file_path)).path]
    /\ UNCHANGED <<fs, lastPut>>

\* A get_file is at its metadata call.
AtMetadata == last.op = "get" /\ last.status = 0

\* The lengths a directory's metadata may report: the platform's.
DirLens == {0, 4096}

\* tokio::fs::metadata(path).await.map(|m| m.len()).unwrap_or(0), on the
\* disk as it is now: the lengths it may give.
MetadataLen(f, path) ==
    LET r == Canonicalize(f, path) IN
    IF ~r.ok THEN {0}
    ELSE IF f[r.path].kind = "dir" THEN DirLens
    ELSE {Len(f[r.path].data)}

\* get_file from its metadata call on: the size, the language, the answer.
GetFileMetadata ==
    /\ AtMetadata
    /\ \E size \in MetadataLen(fs, last.canonical_path) :
          last' = [last EXCEPT
                     !.status = OK,
                     !.size = size,
                     !.language = detect_language(Spell(Last(last.canonical_path)))]
    /\ UNCHANGED <<fs, lastPut>>

\* The response is sent and the request is over.
Respond ==
    /\ last # NoCall
    /\ last' = NoCall
    /\ UNCHANGED <<fs, lastPut>>

---------------------------------------------------------------------------
(* Other programs on the same disk: an editor saving or deleting a note. *)

ExternalWrite(path, bytes) ==
    /\ last = NoCall
    /\ Exists(fs, Parent(path)) /\ fs[Parent(path)].kind = "dir"
    /\ fs[path].kind \in {"none", "file"}
    /\ fs' = [fs EXCEPT ![path] = FileEntry(bytes)]
    /\ lastPut' = {r \in lastPut : r.target # path}
    /\ UNCHANGED last

ExternalRemove(path) ==
    /\ last = NoCall
    /\ fs[path].kind = "file"
    /\ fs' = [fs EXCEPT ![path] = NoEntry]
    /\ lastPut' = {r \in lastPut : r.target # path}
    /\ UNCHANGED last

(* The same programs while a put_file is between its guard and its write,
   or a get_file between its read and its metadata call. *)

\* A handler is between two of its steps.
InFlight == last # NoCall /\ last.status = 0

\* An editor saves the file.
SaveBetween(path, bytes) ==
    /\ InFlight
    /\ fs[path].kind = "file"
    /\ fs' = [fs EXCEPT ![path] = FileEntry(bytes)]
    /\ lastPut' = {r \in lastPut : r.target # path}
    /\ UNCHANGED last

\* Another request's put_file runs from its guard to its write.
PutBetween(name, file_path, content) ==
    /\ InFlight
    /\ \E g \in {PutFileGuard(fs, name, file_path)} :
          /\ g.ok
          /\ \E w \in {FsWrite(fs, g.path, Utf8Encode(content))} :
                /\ w.ok
                /\ fs' = w.fs
                /\ lastPut' = {r \in lastPut : r.target # w.path}
                                 \cup {[target |-> w.path, name |-> name,
                                         path |-> file_path, body |-> content]}
    /\ UNCHANGED last

\* unlink(path), or a rename of the file to a place the model does not
\* track.
Unlink(path) ==
    /\ InFlight
    /\ fs[path].kind \in {"file", "symlink"}
    /\ fs' = [fs EXCEPT ![path] = NoEntry]
    /\ lastPut' = {r \in lastPut : r.target # path}
    /\ UNCHANGED last

\* rename(link, path): a symbolic link to `target` takes the file's place.
ReplaceWithLink(path, target) ==
    /\ InFlight
    /\ fs[path].kind = "file"
    /\ fs' = [fs EXCEPT ![path] = LinkEntry(target)]
    /\ lastPut' = {r \in lastPut : r.target # path}
    /\ UNCHANGED last

\* An editor puts the file back, between two requests.
Restore(path, bytes) ==
    /\ last = NoCall
    /\ fs[path].kind \in {"none", "symlink"}
    /\ fs' = [fs EXCEPT ![path] = FileEntry(bytes)]
    /\ UNCHANGED <<last, lastPut>>

---------------------------------------------------------------------------
(* The disk and the requests of the handler specification. *)

\* "h" and "e-acute": one and two bytes of UTF-8.
CodePoints == {104, 233}

Bodies == SeqsUpTo(CodePoints, MaxLen)

\* What an editor leaves in a file: text, or bytes that are no UTF-8.
ExternalData == {<<104, 105>>, <<255>>}

ExternalFiles == {p_notes}

\* /etc/pw and /org/x.md lie outside /org/projects; alpha/ext links to /etc.
FsBase ==
    [p \in Nodes |->
        CASE p \in {<<>>, p_etc, OrgRoot, ProjectsDir, p_alpha, p_beta, p_sub} -> DirEntry
          [] p = p_ext -> LinkEntry(<<ROOTDIR, n_etc>>)
          [] p \in {p_pw, p_x, p_notes} -> FileEntry(<<104>>)
          [] p = p_b -> FileEntry(<<104, 105>>)
          [] p = p_s -> FileEntry(<<>>)
          [] OTHER -> NoEntry]

\* The same disk before /org/projects is created.
FsNoProjects ==
    [p \in Nodes |-> IF IsPrefix(ProjectsDir, p) THEN NoEntry ELSE FsBase[p]]

ReqNames == {<<n_alpha>>, <<n_beta>>, <<n_ghost>>, <<PARENTDIR>>, <<ROOTDIR, n_etc>>}

ReqPaths ==
    {<<n_notes>>,
     <<CURDIR, n_notes>>,
     <<n_notes, PARENTDIR, n_notes>>,
     <<n_new>>,
     <<n_sub>>,
     <<PARENTDIR, n_alpha, n_notes>>,
     <<PARENTDIR, n_beta, n_b>>,
     <<PARENTDIR, PARENTDIR, n_x>>,
     <<PARENTDIR, PARENTDIR, n_etc, n_pw>>,
     <<n_ext, n_pw>>,
     <<n_ext, PARENTDIR, n_etc, n_pw>>,
     <<ROOTDIR, n_etc, PARENTDIR, n_etc, n_pw>>}

\* The enumeration orders of read_dir the model tries: NumSeeds of them,
\* SeedStride apart so that they differ in every position.
NumSeeds == 6

SeedStride == 7919

Seeds == {k * SeedStride : k \in 0..(NumSeeds - 1)}

---------------------------------------------------------------------------
(* The disks of the tree specification: project alpha with any of a set of *)
(* entries present, among them excluded, hidden and binary ones, and       *)
(* `build` as a directory or as a plain file.                              *)

TreeChoices ==
    [src : BOOLEAN, main : BOOLEAN, png : BOOLEAN,
     lib : {"none", "empty", "hidden"},
     node_modules : BOOLEAN, build : {"none", "dir", "file"},
     Zed : BOOLEAN, env : BOOLEAN, docs : BOOLEAN, Thumbs : BOOLEAN]

File(present) == IF present THEN FileEntry(<<104>>) ELSE NoEntry

Dir(present) == IF present THEN DirEntry ELSE NoEntry

TreeDisk(c) ==
    [p \in Nodes |->
        CASE p = p_src -> Dir(c.src)
          [] p = p_main -> File(c.src /\ c.main)
          [] p = p_png -> File(c.src /\ c.png)
          [] p = p_lib -> Dir(c.src /\ c.lib # "none")
          [] p = p_libenv -> File(c.src /\ c.lib = "hidden")
          [] p = p_Thumbs -> File(c.Thumbs)
          [] p = p_node_modules -> Dir(c.node_modules)
          [] p = p_js -> File(c.node_modules)
          [] p = p_build -> IF c.build = "file" THEN FileEntry(<<104, 105>>)
                            ELSE Dir(c.build = "dir")
          [] p = p_out -> File(c.build = "dir")
          [] p = p_Zed -> File(c.Zed)
          [] p = p_env -> File(c.env)
          [] p = p_docs -> Dir(c.docs)
          [] p = p_a -> File(c.docs)
          [] OTHER -> FsBase[p]]

TreeDisks ==
    {TreeDisk(c) : c \in {d \in TreeChoices : d.src \/ ~(d.main \/ d.png \/ d.lib # "none")}}

---------------------------------------------------------------------------
(* The live-update hub: the broadcast channel of AppState.ws_tx and the    *)
(* WebSocket sessions that subscribe to it.  The channel is tokio's        *)
(* broadcast: a ring of Capacity slots, each holding the position and the  *)
(* text of the last event stored in it, and the position `pos` of the next *)
(* event.  A receiver holds the position `next` of the event it reads      *)
(* next.  Positions stay far below 2^64, so they do not wrap.              *)

Capacity == 64

\* The text of the k-th event handed to the channel: one text per event.
EventText(k) == k

NoText == 0

\* broadcast::channel(Capacity) with its first receiver dropped: slot i is
\* marked as last written one lap before position i.
NewChannel ==
    [buffer |-> [i \in 0..(Capacity - 1) |-> [pos |-> i - Capacity, val |-> NoText]],
     pos |-> 0,
     rx_cnt |-> 0,
     published |-> 0]

\* Sender::send(value): with no receiver the value is returned to the
\* caller and nothing is stored.  `published` counts the calls.
Send(h, value) ==
    IF h.rx_cnt = 0 THEN [h EXCEPT !.published = @ + 1]
    ELSE [h EXCEPT !.buffer[h.pos % Capacity] = [pos |-> h.pos, val |-> value],
                   !.pos = @ + 1,
                   !.published = @ + 1]

\* A recv that takes whatever its slot holds, overwritten or not.
RecvNoLagCheck(h, next) ==
    LET slot == h.buffer[next % Capacity] IN
    IF slot.pos + Capacity = next
    THEN [kind |-> "empty", val |-> NoText, n |-> 0, next |-> next]
    ELSE [kind |-> "ok", val |-> slot.val, n |-> 0, next |-> next + 1]

\* Receiver::recv() of a receiver at position `next`: the event there, or
\* nothing yet (the call stays pending), or Lagged(n) with the receiver
\* moved to the oldest event the ring still holds.  The channel is never
\* closed: every session holds the AppState that holds the sender.
RecvResult(h, next) ==
    LET slot == h.buffer[next % Capacity] IN
    IF slot.pos = next
    THEN [kind |-> "ok", val |-> slot.val, n |-> 0, next |-> next + 1]
    ELSE IF slot.pos + Capacity = next
    THEN [kind |-> "empty", val |-> NoText, n |-> 0, next |-> next]
    ELSE LET oldest == h.pos - Capacity
             missed == oldest - next
         IN  IF missed = 0
             THEN [kind |-> "ok", val |-> slot.val, n |-> 0, next |-> next + 1]
             ELSE [kind |-> "lagged", val |-> NoText, n |-> missed, next |-> oldest]

\* The connections the server may accept, in the order it accepts them.
ConnOrder == <<"c1", "c2">>

Conns == {ConnOrder[i] : i \in 1..Len(ConnOrder)}

\* c is the next connection to accept.
NextToAccept(c) ==
    \E i \in 1..Len(ConnOrder) :
        /\ ConnOrder[i] = c
        /\ \A j \in 1..(i - 1) : conn[ConnOrder[j]].status # "idle"

\* A session: `since` is the number of events published before it
\* subscribed, `frames` the texts its peer has received, `lags` the counts
\* of the "Client lagged by n messages" lines, `pongs` the pongs sent.
\* No inbound message matched yet.
NoInbound == [kind |-> "", data |-> <<>>, pong_sent |-> FALSE]

\* status, reason (the line logged at the end), since and next (the
\* receiver), frames, lags and pongs (what the peer was sent and what was
\* logged), inbound (the message the socket.recv() branch matched last and
\* whether the pong it sent arrived).
IdleSession ==
    [status |-> "idle", reason |-> "", since |-> 0, next |-> 0,
     frames |-> <<>>, lags |-> <<>>, pongs |-> <<>>, inbound |-> NoInbound]

\* A session's state goes with its task; the line it logged remains.
EndedSession(reason) == [IdleSession EXCEPT !.status = "ended", !.reason = reason]

NoSessions == [c \in Conns |-> IdleSession]

\* A subscribe that starts at the oldest event the ring holds.
SubscribeFromOldest(h) == IF h.pos > Capacity THEN h.pos - Capacity ELSE 0

\* Sender::subscribe(): the position a new receiver reads next.
Subscribe(h) == h.pos

\* A publish on a bounded queue: it waits while the ring holds an event
\* that a running session has yet to read.
PublishWhenRoom ==
    /\ \A c \in Conns :
          conn[c].status = "running" => hub.pos - conn[c].next < Capacity
    /\ hub' = Send(hub, EventText(hub.published + 1))
    /\ UNCHANGED conn

\* The file watcher hands the next event to the channel.
Publish ==
    /\ hub' = Send(hub, EventText(hub.published + 1))
    /\ UNCHANGED conn

\* ws_handler and the start of handle_ws_connection: the upgrade, then
\* state.ws_tx.subscribe(), a receiver at the channel's position.
Connect(c) ==
    /\ conn[c].status = "idle"
    /\ NextToAccept(c)
    /\ conn' = [conn EXCEPT ![c] = [IdleSession EXCEPT !.status = "running",
                                                       !.since = hub.published,
                                                       !.next = Subscribe(hub)]]
    /\ hub' = [hub EXCEPT !.rx_cnt = @ + 1]

\* An end of session that leaves its receiver on the channel.
EndKeepsReceiver(c, reason) ==
    /\ conn' = [conn EXCEPT ![c] = EndedSession(reason)]
    /\ UNCHANGED hub

\* The loop is left: the receiver is dropped with the task.
End(c, reason) ==
    /\ conn' = [conn EXCEPT ![c] = EndedSession(reason)]
    /\ hub' = [hub EXCEPT !.rx_cnt = @ - 1]

\* The rx.recv() branch of the loop; `delivered` is whether socket.send
\* of the text frame succeeds.
Recv(c, delivered) ==
    /\ conn[c].status = "running"
    /\ \E r \in {RecvResult(hub, conn[c].next)} :
          /\ r.kind # "empty"
          /\ IF r.kind = "lagged"
             THEN /\ conn' = [conn EXCEPT ![c].next = r.next,
                                          ![c].lags = Append(@, r.n)]
                  /\ UNCHANGED hub
             ELSE IF delivered
             THEN /\ conn' = [conn EXCEPT ![c].next = r.next,
                                          ![c].frames = Append(@, r.val)]
                  /\ UNCHANGED hub
             ELSE End(c, "Client disconnected (send failed)")

\* The frames a peer may send, and the end and the failure of its stream.
CloseFrame == [kind |-> "close", data |-> <<>>]

StreamEnd == [kind |-> "none", data |-> <<>>]

StreamError == [kind |-> "error", data |-> <<>>]

TextFrame == [kind |-> "text", data |-> <<104>>]

PingFrame(data) == [kind |-> "ping", data |-> data]

InboundMsgs == {CloseFrame, StreamEnd, StreamError, TextFrame, PingFrame(<<1>>)}

\* A loop that takes a close frame for one more frame to ignore.
InboundIgnoresClose(c, msg, pong_sent) ==
    /\ conn[c].status = "running"
    /\ IF msg.kind = "none" THEN End(c, "Client disconnected")
       ELSE IF msg.kind = "error" THEN End(c, "Client error")
       ELSE /\ conn' = [conn EXCEPT
                          ![c].pongs = IF msg.kind = "ping" /\ pong_sent
                                       THEN Append(@, msg.data) ELSE @,
                          ![c].inbound = [kind |-> msg.kind, data |-> msg.data,
                                          pong_sent |-> msg.kind = "ping" /\ pong_sent]]
            /\ UNCHANGED hub

\* The socket.recv() branch of the loop.  The outcome of sending the pong
\* is ignored (`pong_sent`): the session goes on either way.
Inbound(c, msg, pong_sent) ==
    /\ conn[c].status = "running"
    /\ IF msg.kind \in {"close", "none"} THEN End(c, "Client disconnected")
       ELSE IF msg.kind = "error" THEN End(c, "Client error")
       ELSE IF msg.kind = "ping"
       THEN /\ conn' = [conn EXCEPT
                          ![c].pongs = IF pong_sent THEN Append(@, msg.data) ELSE @,
                          ![c].inbound = [kind |-> "ping", data |-> msg.data,
                                          pong_sent |-> pong_sent]]
            /\ UNCHANGED hub
       ELSE /\ conn' = [conn EXCEPT
                          ![c].inbound = [kind |-> msg.kind, data |-> msg.data,
                                          pong_sent |-> FALSE]]
            /\ UNCHANGED hub

---------------------------------------------------------------------------
(* The network bootstrap: start_server from the credential settings on.    *)
(* `boot` holds the task of start_server (pc), the task it spawns for the  *)
(* loopback listener (local), the listeners bound, the lines logged and    *)
(* the result returned.                                                    *)

\* A port is a u16.
PortRange == 65536

\* A variable of the environment: not set, set to Unicode text, or set to
\* something that is not valid Unicode.
Unset == [kind |-> "unset", text |-> ""]

Unicode(text) == [kind |-> "unicode", text |-> text]

NotUnicode == [kind |-> "not unicode", text |-> ""]

None == [some |-> FALSE, val |-> ""]

Some(val) == [some |-> TRUE, val |-> val]

\* env::var(name).ok(): the value of a variable set to Unicode text.
EnvVarOk(v) == IF v.kind = "unicode" THEN Some(v.text) ELSE None

LOCALHOST == "127.0.0.1"

UNSPECIFIED == "0.0.0.0"

Listener(ip, port, tls) == [ip |-> ip, port |-> port, tls |-> tls]

BootIdle ==
    [pc |-> "idle", local |-> "none", env_cert |-> Unset, env_key |-> Unset,
     port |-> 0, tls_port |-> 0, listeners |-> {}, log |-> <<>>,
     result |-> "none"]

WARNING == "WARNING: Both ORG_VIEWER_TLS_CERT and ORG_VIEWER_TLS_KEY must be set for TLS. Falling back to HTTP."

Returns(b, result, lines) ==
    [b EXCEPT !.pc = "returned", !.result = result, !.log = @ \o lines]

\* A TLS listener on the configured port itself.
TlsPortSame(port) == port

\* port + 1 in a build that wraps on overflow.
TlsPort(port) == (port + 1) % PortRange

\* A start_server that spawns the loopback listener before it loads the
\* credentials.
StartServerSpawnsFirst(env_cert, env_key, port, certs_load, overflow_checks) ==
    /\ boot.pc = "idle"
    /\ LET tls_cert == EnvVarOk(env_cert)
           tls_key == EnvVarOk(env_key)
           b == [boot EXCEPT !.env_cert = env_cert, !.env_key = env_key,
                             !.port = port]
       IN  IF tls_cert.some /\ tls_key.some
           THEN IF ~certs_load
                THEN boot' = Returns([b EXCEPT !.local = "bind"], "err",
                                     <<"TLS enabled", "FAILED to load TLS certs", "Hint">>)
                ELSE IF port + 1 >= PortRange /\ overflow_checks
                THEN boot' = [b EXCEPT !.pc = "panicked", !.local = "bind",
                                       !.log = @ \o <<"TLS enabled">>]
                ELSE boot' = [b EXCEPT !.pc = "tls_bind", !.local = "bind",
                                       !.tls_port = TlsPort(port),
                                       !.log = @ \o <<"TLS enabled",
                                                      "SUCCESS: HTTPS listener">>]
           ELSE boot' = [b EXCEPT !.pc = "bind",
                                  !.log = @ \o (IF tls_cert.some \/ tls_key.some
                                                THEN <<WARNING>> ELSE <<>>)
                                            \o <<"Attempting to bind">>]

\* start_server from the reading of the environment to its first await.
\* `certs_load` is whether RustlsConfig::from_pem_file succeeds;
\* `overflow_checks` is whether the build checks arithmetic overflow
\* (port + 1 panics) or wraps.
StartServer(env_cert, env_key, port, certs_load, overflow_checks) ==
    /\ boot.pc = "idle"
    /\ LET tls_cert == EnvVarOk(env_cert)
           tls_key == EnvVarOk(env_key)
           b == [boot EXCEPT !.env_cert = env_cert, !.env_key = env_key,
                             !.port = port]
       IN  IF tls_cert.some /\ tls_key.some
           THEN IF ~certs_load
                THEN boot' = Returns(b, "err",
                                     <<"TLS enabled", "FAILED to load TLS certs", "Hint">>)
                ELSE IF port + 1 >= PortRange /\ overflow_checks
                THEN boot' = [b EXCEPT !.pc = "panicked", !.local = "bind",
                                       !.log = @ \o <<"TLS enabled">>]
                ELSE boot' = [b EXCEPT !.pc = "tls_bind", !.local = "bind",
                                       !.tls_port = TlsPort(port),
                                       !.log = @ \o <<"TLS enabled",
                                                      "SUCCESS: HTTPS listener">>]
           ELSE boot' = [b EXCEPT !.pc = "bind",
                                  !.log = @ \o (IF tls_cert.some \/ tls_key.some
                                                THEN <<WARNING>> ELSE <<>>)
                                            \o <<"Attempting to bind">>]

\* Single mode: TcpListener::bind(0.0.0.0:port).
Bind(ok) ==
    /\ boot.pc = "bind"
    /\ boot' = IF ok
               THEN [boot EXCEPT !.pc = "serve",
                                 !.listeners = @ \cup {Listener(UNSPECIFIED, boot.port, FALSE)},
                                 !.log = @ \o <<"SUCCESS: Server listening",
                                                "Starting axum serve loop...">>]
               ELSE Returns(boot, "err", <<"FAILED to bind">>)

\* Single mode: axum::serve returns, with an error or without.
ServeReturns(err) ==
    /\ boot.pc = "serve"
    /\ \E b \in {[boot EXCEPT !.listeners = @ \ {Listener(UNSPECIFIED, boot.port, FALSE)}]} :
          boot' = IF err THEN Returns(b, "err", <<"Axum serve error">>)
                         ELSE Returns(b, "ok", <<"Server shut down normally">>)

\* Dual mode, the spawned task: TcpListener::bind(127.0.0.1:port).
LocalBind(ok) ==
    /\ boot.local = "bind"
    /\ boot' = IF ok
               THEN [boot EXCEPT !.local = "serve",
                                 !.listeners = @ \cup {Listener(LOCALHOST, boot.port, FALSE)},
                                 !.log = Append(@, "SUCCESS: HTTP listener")]
               ELSE [boot EXCEPT !.local = "done",
                                 !.log = Append(@, "FAILED to bind HTTP")]

\* Dual mode, the spawned task: axum::serve returns.
LocalServeReturns(err) ==
    /\ boot.local = "serve"
    /\ boot' = [boot EXCEPT !.local = "done",
                            !.listeners = @ \ {Listener(LOCALHOST, boot.port, FALSE)},
                            !.log = @ \o (IF err THEN <<"HTTP serve error">> ELSE <<>>)]

\* Dual mode: axum_server::bind_rustls(0.0.0.0:tls_port).serve binds.
TlsBind(ok) ==
    /\ boot.pc = "tls_bind"
    /\ boot' = IF ok
               THEN [boot EXCEPT !.pc = "tls_serve",
                                 !.listeners = @ \cup {Listener(UNSPECIFIED, boot.tls_port, TRUE)}]
               ELSE Returns(boot, "err", <<"Axum TLS serve error">>)

\* Dual mode: the TLS server returns, with an error or without.
TlsServeReturns(err) ==
    /\ boot.pc = "tls_serve"
    /\ \E b \in {[boot EXCEPT !.listeners = @ \ {Listener(UNSPECIFIED, boot.tls_port, TRUE)}]} :
          boot' = IF err THEN Returns(b, "err", <<"Axum TLS serve error">>)
                         ELSE Returns(b, "ok", <<"Server shut down normally">>)

LangIdle == [name |-> <<>>, done |-> FALSE, out |-> NoLanguage]

FilesIdle ==
    /\ fs = FsBase
    /\ last = NoCall
    /\ lastPut = {}

Init ==
    /\ fs \in {FsBase, FsNoProjects}
    /\ last = NoCall
    /\ lastPut = {}
    /\ lang = LangIdle
    /\ hub = NewChannel
    /\ conn = NoSessions
    /\ boot = BootIdle
    /\ walk = WalkIdle

Next ==
    \/ \E name \in ReqNames, seed \in Seeds :
          GetTree(name, seed) /\ UNCHANGED <<lang, hub, conn, boot, walk>>
    \/ \E name \in ReqNames, file_path \in ReqPaths :
          GetFile(name, file_path) /\ UNCHANGED <<lang, hub, conn, boot, walk>>
    \/ \E name \in ReqNames, file_path \in ReqPaths, content \in Bodies :
          PutFile(name, file_path, content) /\ UNCHANGED <<lang, hub, conn, boot, walk>>
    \/ \E path \in ExternalFiles, bytes \in ExternalData :
          ExternalWrite(path, bytes) /\ UNCHANGED <<lang, hub, conn, boot, walk>>
    \/ \E path \in ExternalFiles :
          ExternalRemove(path) /\ UNCHANGED <<lang, hub, conn, boot, walk>>
    \/ Respond /\ UNCHANGED <<lang, hub, conn, boot, walk>>

Spec == Init /\ [][Next]_vars

\* detect_language applied to one file name.
DetectLanguage ==
    /\ ~lang.done
    /\ lang' = [lang EXCEPT !.done = TRUE, !.out = detect_language(lang.name)]
    /\ UNCHANGED <<fs, last, lastPut>>

\* The file names detect_language is given: every text of one to
\* MaxNameLen characters of NameChars.
MaxNameLen == 4

NameChars == {".", "c", "g", "o", "h", "s", "G"}

FileNames == SeqsUpTo(NameChars, MaxNameLen) \ {<<>>}

InitLang ==
    /\ FilesIdle
    /\ lang \in {[name |-> n, done |-> FALSE, out |-> NoLanguage] : n \in FileNames}
    /\ hub = NewChannel
    /\ conn = NoSessions
    /\ boot = BootIdle
    /\ walk = WalkIdle

NextLang == DetectLanguage /\ UNCHANGED <<hub, conn, boot, walk>>

SpecLang == InitLang /\ [][NextLang]_vars

\* The hub specification: events are published up to MaxPublish, past the
\* ring's capacity; sessions start while at most MaxJoinAt events have been
\* published, so that some start after an event; a peer may close at any time.
MaxPublish == 66

MaxJoinAt == 1

InitHub ==
    /\ FilesIdle
    /\ lang = LangIdle
    /\ hub = NewChannel
    /\ conn = NoSessions
    /\ boot = BootIdle
    /\ walk = WalkIdle

NextHub ==
    \/ hub.published < MaxPublish /\ Publish /\ UNCHANGED <<fs, last, lastPut, lang, boot, walk>>
    \/ \E c \in Conns :
          hub.published <= MaxJoinAt /\ Connect(c)
             /\ UNCHANGED <<fs, last, lastPut, lang, boot, walk>>
    \/ \E c \in Conns, delivered \in BOOLEAN :
          Recv(c, delivered) /\ UNCHANGED <<fs, last, lastPut, lang, boot, walk>>
    \/ \E c \in Conns :
          Inbound(c, CloseFrame, TRUE) /\ UNCHANGED <<fs, last, lastPut, lang, boot, walk>>

SpecHub == InitHub /\ [][NextHub]_vars

\* The session specification: every inbound frame, a few events.
MaxSessionPublish == 3

MaxPings == 1

NextSession ==
    \/ hub.published < MaxSessionPublish /\ Publish
          /\ UNCHANGED <<fs, last, lastPut, lang, boot, walk>>
    \/ \E c \in Conns : Connect(c) /\ UNCHANGED <<fs, last, lastPut, lang, boot, walk>>
    \/ \E c \in Conns, delivered \in BOOLEAN :
          Recv(c, delivered) /\ UNCHANGED <<fs, last, lastPut, lang, boot, walk>>
    \/ \E c \in Conns, msg \in InboundMsgs, pong_sent \in BOOLEAN :
          /\ Len(conn[c].pongs) < MaxPings
          /\ Inbound(c, msg, pong_sent)
          /\ UNCHANGED <<fs, last, lastPut, lang, boot, walk>>

SpecSession == InitHub /\ [][NextSession]_vars

\* The bootstrap specification: every setting of the two variables, the
\* ports at both ends of the range and one between.
EnvValues(text) == {Unset, Unicode(text), NotUnicode}

Ports == {0, 3847, PortRange - 2, PortRange - 1}

InitBoot ==
    /\ FilesIdle
    /\ lang = LangIdle
    /\ hub = NewChannel
    /\ conn = NoSessions
    /\ boot = BootIdle
    /\ walk = WalkIdle

NextBoot ==
    \/ \E env_cert \in EnvValues("cert.pem"), env_key \in EnvValues("key.pem"),
          port \in Ports, certs_load \in BOOLEAN, overflow_checks \in BOOLEAN :
          StartServer(env_cert, env_key, port, certs_load, overflow_checks)
             /\ UNCHANGED <<fs, last, lastPut, lang, hub, conn, walk>>
    \/ \E ok \in BOOLEAN :
          Bind(ok) /\ UNCHANGED <<fs, last, lastPut, lang, hub, conn, walk>>
    \/ \E err \in BOOLEAN :
          ServeReturns(err) /\ UNCHANGED <<fs, last, lastPut, lang, hub, conn, walk>>
    \/ \E ok \in BOOLEAN :
          LocalBind(ok) /\ UNCHANGED <<fs, last, lastPut, lang, hub, conn, walk>>
    \/ \E err \in BOOLEAN :
          LocalServeReturns(err) /\ UNCHANGED <<fs, last, lastPut, lang, hub, conn, walk>>
    \/ \E ok \in BOOLEAN :
          TlsBind(ok) /\ UNCHANGED <<fs, last, lastPut, lang, hub, conn, walk>>
    \/ \E err \in BOOLEAN :
          TlsServeReturns(err) /\ UNCHANGED <<fs, last, lastPut, lang, hub, conn, walk>>

SpecBoot == InitBoot /\ [][NextBoot]_vars

InitTree ==
    /\ fs \in TreeDisks
    /\ last = NoCall
    /\ lastPut = {}
    /\ lang = LangIdle
    /\ hub = NewChannel
    /\ conn = NoSessions
    /\ boot = BootIdle
    /\ walk = WalkIdle

NextTree ==
    \/ \E seed \in Seeds :
          GetTree(<<n_alpha>>, seed) /\ UNCHANGED <<lang, hub, conn, boot, walk>>
    \/ Respond /\ UNCHANGED <<lang, hub, conn, boot, walk>>

SpecTree == InitTree /\ [][NextTree]_vars

\* The race specification: put_file in its two steps, with other programs
\* removing or replacing the files of RaceFiles between the two.
RaceFiles == {p_notes, p_b}

\* Where the links put in their place point: two files outside the
\* projects root and one inside.  None is a place of RaceFiles, so that no
\* link points to a link.
LinkTargets == {<<ROOTDIR>> \o p_pw, <<ROOTDIR>> \o p_x, <<ROOTDIR>> \o p_s}

\* The requests of the race: existing files of two projects and a file
\* that does not exist, all asked for under project alpha.
RacePaths == {<<n_notes>>, <<n_new>>, <<PARENTDIR, n_beta, n_b>>}

NextRace ==
    \/ \E file_path \in RacePaths :
          PutFileCheck(<<n_alpha>>, file_path, <<233>>)
             /\ UNCHANGED <<lang, hub, conn, boot, walk>>
    \/ PutFileWrite /\ UNCHANGED <<lang, hub, conn, boot, walk>>
    \/ \E path \in RaceFiles :
          Unlink(path) /\ UNCHANGED <<lang, hub, conn, boot, walk>>
    \/ \E path \in RaceFiles, target \in LinkTargets :
          ReplaceWithLink(path, target) /\ UNCHANGED <<lang, hub, conn, boot, walk>>
    \/ \E path \in RaceFiles :
          Restore(path, <<104>>) /\ UNCHANGED <<lang, hub, conn, boot, walk>>
    \/ ~AtWrite /\ Respond /\ UNCHANGED <<lang, hub, conn, boot, walk>>

SpecRace == Init /\ [][NextRace]_vars

\* The read specification: get_file in its two steps, with an editor's
\* save, another request's put_file and an unlink between the two.
ReadPaths == {<<n_notes>>, <<n_new>>, <<n_sub>>, <<PARENTDIR, n_beta, n_b>>}

NextRead ==
    \/ \E file_path \in ReadPaths :
          GetFileRead(<<n_alpha>>, file_path)
             /\ UNCHANGED <<lang, hub, conn, boot, walk>>
    \/ GetFileMetadata /\ UNCHANGED <<lang, hub, conn, boot, walk>>
    \/ \E path \in RaceFiles, bytes \in ExternalData :
          SaveBetween(path, bytes) /\ UNCHANGED <<lang, hub, conn, boot, walk>>
    \/ \E file_path \in ReadPaths, content \in Bodies :
          PutBetween(<<n_alpha>>, file_path, content)
             /\ UNCHANGED <<lang, hub, conn, boot, walk>>
    \/ \E path \in RaceFiles :
          Unlink(path) /\ UNCHANGED <<lang, hub, conn, boot, walk>>
    \/ \E path \in RaceFiles :
          Restore(path, <<104>>) /\ UNCHANGED <<lang, hub, conn, boot, walk>>
    \/ ~InFlight /\ Respond /\ UNCHANGED <<lang, hub, conn, boot, walk>>

SpecRead == Init /\ [][NextRead]_vars

\* The walk specification: build_tree step by step over project alpha on
\* disks with symbolic links: to the project itself and to the directory
\* that holds the link (cycles), to a directory outside the projects root,
\* and to nothing.
LinkChoices ==
    [lib : {"none", "dir", "alpha", "src", "etc", "ghost"},
     docs : {"none", "dir", "alpha", "src"},
     main : BOOLEAN, a : BOOLEAN]

LinkTo(to) ==
    CASE to = "alpha" -> LinkEntry(<<ROOTDIR>> \o p_alpha)
      [] to = "src" -> LinkEntry(<<ROOTDIR>> \o p_src)
      [] to = "etc" -> LinkEntry(<<ROOTDIR>> \o p_etc)
      [] to = "ghost" -> LinkEntry(<<ROOTDIR>> \o ProjectsDir \o <<n_ghost>>)
      [] to = "dir" -> DirEntry
      [] OTHER -> NoEntry

WalkDisk(c) ==
    [p \in Nodes |->
        CASE p = p_src -> DirEntry
          [] p = p_main -> File(c.main)
          [] p = p_lib -> LinkTo(c.lib)
          [] p = p_libenv -> File(c.lib = "dir")
          [] p = p_docs -> LinkTo(c.docs)
          [] p = p_a -> File(c.docs = "dir" /\ c.a)
          [] OTHER -> FsBase[p]]

WalkDisks == {WalkDisk(c) : c \in LinkChoices}

InitWalk ==
    /\ fs \in WalkDisks
    /\ last = NoCall
    /\ lastPut = {}
    /\ lang = LangIdle
    /\ hub = NewChannel
    /\ conn = NoSessions
    /\ boot = BootIdle
    /\ walk = WalkIdle

NextWalk ==
    \/ \E seed \in Seeds :
          WalkCall(p_alpha, seed) /\ UNCHANGED <<lang, hub, conn, boot>>
    \/ WalkStep(p_alpha) /\ UNCHANGED <<lang, hub, conn, boot>>

\* ENABLED <<NextWalk>>_vars, written out: a call can be made of a walk
\* that has not begun, and a walk under way has a next step.
WalkCanStep == walk.pc \in {"idle", "running"}

\* build_tree is straight-line code: it goes on until it returns.  This
\* is WF_vars(NextWalk) with WalkCanStep for ENABLED <<NextWalk>>_vars.
WalkFairness == []<>(~WalkCanStep) \/ []<><<NextWalk>>_vars

SpecWalk == InitWalk /\ [][NextWalk]_vars /\ WalkFairness

---------------------------------------------------------------------------
(* Claims about the project file handlers. *)

HasParentSegment(path) == \E i \in 1..Len(path) : path[i] = PARENTDIR

IsRelative(path) == path = <<>> \/ Head(path) # ROOTDIR

\* `path` names something on disk that does not lie under `root`.
ResolvesOutside(f, path, root) ==
    LET c == Canonicalize(f, path)
        r == Canonicalize(f, root)
    IN  c.ok /\ ~(r.ok /\ IsPrefix(r.path, c.path))

\* The step is a handler call of kind `ops`: `last'` is its response.
Handled(ops) == last = NoCall /\ last' # NoCall /\ last'.op \in ops

\* A call whose client-supplied name and path are relative and hold a "..".
TraversalCall ==
    /\ Handled({"tree", "get", "put"})
    /\ IsRelative(last'.name) /\ IsRelative(last'.path)
    /\ HasParentSegment(last'.name \o last'.path)

Refused ==
    /\ last'.status \in {FORBIDDEN, NOT_FOUND}
    /\ last'.content = <<>> /\ last'.tree = <<>>
    /\ fs' = fs

\* C1, as stated: a call with a ".." path that resolves outside the root of
\* the project it names (projects/<name>) is answered 403 or 404, returns no
\* content and writes nothing.
C1_OutsideProjectRefused ==
    [][TraversalCall
         /\ ResolvesOutside(fs, FullPath(last'.name, last'.path),
                            ProjectPath(last'.name))
       => Refused]_vars

\* C1, amended: a call with a ".." path that resolves outside the projects
\* root (org_root/projects, the directory of all projects) is answered 403 or
\* 404, returns no content and writes nothing.
C1_OutsideProjectsRootRefused ==
    [][TraversalCall
         /\ ResolvesOutside(fs, FullPath(last'.name, last'.path), ProjectsDir)
       => Refused]_vars

\* C1's case: "../../x.md" under alpha names /org/x.md, which exists outside
\* /org/projects, and the read of it was refused with 403.
C1_Witness ==
    /\ last.op = "get" /\ last.status = FORBIDDEN
    /\ last.name = <<n_alpha>> /\ last.path = <<PARENTDIR, PARENTDIR, n_x>>
    /\ Canonicalize(fs, FullPath(last.name, last.path)) = [ok |-> TRUE, path |-> p_x]

\* C2, as stated: a PUT whose target does not exist is answered 404 and
\* leaves every file as it was.
C2_MissingTargetNotFound ==
    [][Handled({"put"}) /\ ~Canonicalize(fs, FullPath(last'.name, last'.path)).ok
       => last'.status = NOT_FOUND /\ fs' = fs]_vars

\* C2, amended: a PUT whose target does not exist leaves every file as it was
\* and creates none; it is answered 404 when the projects root resolves, and
\* 500 when the projects root itself does not resolve.
C2_MissingTargetNeverCreated ==
    [][Handled({"put"}) /\ ~Canonicalize(fs, FullPath(last'.name, last'.path)).ok
       => /\ fs' = fs
          /\ last'.status = IF Canonicalize(fs, ProjectsDir).ok
                            THEN NOT_FOUND ELSE INTERNAL_SERVER_ERROR]_vars

\* C2's case: a PUT to alpha/new.md, which does not exist, was answered 404
\* and new.md still does not exist.
C2_Witness ==
    /\ last.op = "put" /\ last.status = NOT_FOUND
    /\ last.name = <<n_alpha>> /\ last.path = <<n_new>> /\ last.body # <<>>
    /\ Exists(fs, p_alpha) /\ ~Exists(fs, p_new)

\* The PUTs, each still the last write of its file, that a GET repeats.
PutBefore(call) ==
    {r \in lastPut : r.name = call.name /\ r.path = call.path}

\* C5: a GET of the project and path of a successful PUT, with no write to the
\* file since, returns the PUT's content and its length in bytes as size.
C5_WriteReadRoundTrip ==
    last.op = "get" =>
        \A r \in PutBefore(last) :
            /\ last.status = OK
            /\ last.content = r.body
            /\ last.size = Len(Utf8Encode(r.body))

\* C5's case: a GET after a PUT of the two-byte text "e-acute".
C5_Witness ==
    /\ last.op = "get" /\ last.status = OK
    /\ last.content = <<233>> /\ last.size = 2
    /\ PutBefore(last) # {}

---------------------------------------------------------------------------
(* Claims about build_tree, over the results of get_tree.                  *)

\* The nodes of a tree at every depth.
RECURSIVE NodesOf(_)
NodesOf(tree) ==
    IF tree = <<>> THEN {}
    ELSE {Head(tree)} \cup NodesOf(Head(tree).children) \cup NodesOf(Tail(tree))

\* The listings of a tree: the top level and every directory node's children.
Levels(tree) == {tree} \cup {n.children : n \in {m \in NodesOf(tree) : m.is_dir}}

TreeCall == last.op = "tree" /\ last.status = OK

\* The place on disk of a project-relative path of the listed project.
OnDisk(rel) == ProjectPath(last.name) \o rel

\* A name is hidden when it starts with a dot.
Hidden(name) == Head(Spell(name)) = DOT

\* An entry is kept when no filter removes it: a file that is not an
\* excluded file, hidden or binary; a directory that is not an excluded
\* directory or hidden and has an entry that is kept.
RECURSIVE Kept(_, _)
Kept(f, p) ==
    LET name == Last(p) IN
    IF f[p].kind = "dir"
    THEN /\ name \notin EXCLUDED_DIRS
         /\ ~Hidden(name)
         /\ \E c \in Children(f, p) : Kept(f, p \o <<c>>)
    ELSE /\ name \notin EXCLUDED_FILES
         /\ ~Hidden(name)
         /\ ~is_binary_extension(Spell(name))

\* The directories of the listed project whose contents are all filtered.
FilteredOut(f) ==
    {p \in Nodes : /\ Len(p) > Len(ProjectPath(last.name))
                   /\ IsPrefix(ProjectPath(last.name), p)
                   /\ f[p].kind = "dir"
                   /\ Children(f, p) # {}
                   /\ \A c \in Children(f, p) : ~Kept(f, p \o <<c>>)}

\* C6: in every result of build_tree, at every depth, a directory node has
\* a non-empty children list, and a directory whose contents are all
\* removed by the excluded, hidden and binary filters, directly or after
\* recursion, has no node in the result.
C6_NoEmptyDirectoryNode ==
    TreeCall =>
        /\ \A n \in NodesOf(last.tree) : n.is_dir => n.children # <<>>
        /\ \A p \in FilteredOut(fs) :
              \A n \in NodesOf(last.tree) : OnDisk(n.path) # p

\* C6 happens: src holds only a binary file and a directory of hidden
\* files, and the listing, which is not empty, has no node for src.
C6_Witness ==
    /\ TreeCall
    /\ last.tree # <<>>
    /\ {p_src, p_lib} \subseteq FilteredOut(fs)
    /\ Children(fs, p_src) = {n_png, n_lib}
    /\ \A n \in NodesOf(last.tree) : n.name # n_src

\* a is before b in a listing: a directory before a file, and within a
\* kind the smaller raw name first.
Before(a, b) ==
    IF a.is_dir # b.is_dir THEN a.is_dir
    ELSE NameLess(Spell(a.name), Spell(b.name))

Sorted(level) ==
    \A i, j \in 1..Len(level) : i < j => Before(level[i], level[j])

\* C7: at every level of a build_tree result all directories precede all
\* files and each group is in ascending byte order of raw name, and the
\* result is the same for every order in which the filesystem enumerates
\* the same directory contents.
C7_SortedWhateverTheEnumeration ==
    TreeCall =>
        /\ \A level \in Levels(last.tree) : Sorted(level)
        /\ \A seed \in Seeds :
              GetTreeResult(fs, last.name, seed).tree = last.tree

\* C7 happens: a listing of two directories and then three files, the
\* upper-case name first, from a disk that two seeds enumerate differently.
C7_Witness ==
    /\ TreeCall
    /\ Len(last.tree) >= 5
    /\ \E i \in 2..(Len(last.tree) - 3) :
          /\ last.tree[i - 1].is_dir /\ last.tree[i].is_dir
          /\ last.tree[i + 1].name = n_Zed
          /\ ~last.tree[i + 2].is_dir /\ ~last.tree[i + 3].is_dir
    /\ \E s1, s2 \in Seeds :
          ReadDir(fs, p_alpha, s1).names # ReadDir(fs, p_alpha, s2).names

ExclusionSet == EXCLUDED_DIRS \cup EXCLUDED_FILES

\* The names along a project-relative path but the last.
Ancestors(rel) == {rel[i] : i \in 1..(Len(rel) - 1)}

\* C8 as stated: no entry whose name is in the static exclusion set, file
\* or directory, is in a build_tree result, nor anything beneath one.
C8_NoExcludedName ==
    TreeCall =>
        \A n \in NodesOf(last.tree) :
            \A i \in 1..Len(n.path) : n.path[i] \notin ExclusionSet

\* C8: no directory named in EXCLUDED_DIRS and no file named in
\* EXCLUDED_FILES is in a build_tree result, nor anything beneath such a
\* directory.
C8_NoExcludedOfItsKind ==
    TreeCall =>
        \A n \in NodesOf(last.tree) :
            /\ n.is_dir => n.name \notin EXCLUDED_DIRS
            /\ ~n.is_dir => n.name \notin EXCLUDED_FILES
            /\ Ancestors(n.path) \cap EXCLUDED_DIRS = {}

\* C8 happens: node_modules and build are directories with a source file
\* each, Thumbs.db is a file, and the listing is not empty.
C8_Witness ==
    /\ TreeCall
    /\ last.tree # <<>>
    /\ fs[p_js].kind = "file" /\ fs[p_out].kind = "file"
    /\ fs[p_Thumbs].kind = "file"
    /\ \A n \in NodesOf(last.tree) :
          n.name \notin {n_node_modules, n_build, n_js, n_out, n_Thumbs}

---------------------------------------------------------------------------
(* Claims about detect_language.                                           *)

Chars(name) == {name[i] : i \in 1..Len(name)}

\* The extensions of the table.
Recognized(ext) == LanguageOf(ext) # NoLanguage

\* C9: detect_language returns the table's tag for a name whose text after
\* the last dot is a recognized extension, and no tag for every name whose
\* extension is unrecognized or that has no dot at all.
C9_TagFromExtensionOnly ==
    lang.done =>
        LET has_dot == DOT \in Chars(lang.name)
            ext == RsplitDotFirst(lang.name)
        IN  IF has_dot /\ Recognized(ext)
            THEN lang.out = LanguageOf(ext)
            ELSE lang.out = NoLanguage

---------------------------------------------------------------------------
(* Claims about the live-update hub.                                       *)

Running(c) == conn[c].status = "running"

\* How far c's receiver is behind the channel.
Behind(c) == hub.pos - conn[c].next

\* c has drained promptly so far: it has never been more than Capacity
\* events behind (a receiver that was is told so by its next recv).
Prompt(c) == conn[c].lags = <<>> /\ Behind(c) <= Capacity

\* C3: a running subscriber that drains promptly has been forwarded the
\* events published since it subscribed, each once, verbatim and in publish
\* order, up to the events its receiver still has to read; and no
\* subscriber is forwarded an event published before it subscribed.
C3_EveryEventOnceInOrder ==
    \A c \in Conns :
        Running(c) =>
            LET frames == conn[c].frames IN
            /\ Prompt(c) =>
                  /\ Len(frames) + Behind(c) = hub.published - conn[c].since
                  /\ \A i \in 1..Len(frames) :
                        frames[i] = EventText(conn[c].since + i)
            /\ \A i \in 1..Len(frames) :
                  frames[i] \notin {EventText(k) : k \in 1..conn[c].since}

\* C3 happens: two subscribers that subscribed before the first event have
\* each been forwarded all of Capacity + 1 events.
C3_Witness ==
    /\ hub.published = Capacity + 1
    /\ \A c \in Conns :
          /\ Running(c) /\ conn[c].since = 0 /\ conn[c].lags = <<>>
          /\ Len(conn[c].frames) = Capacity + 1
          /\ conn[c].frames[Capacity + 1] = EventText(Capacity + 1)

\* The positions the ring holds, and the oldest of them.
Held == {hub.buffer[i].pos : i \in 0..(Capacity - 1)} \cap Nat

OldestHeld == CHOOSE p \in Held : \A q \in Held : p <= q

\* The events c has not read that the ring no longer holds.
Missed(c) == {p \in conn[c].next..(hub.pos - 1) : p \notin Held}

\* C4: a recv of a subscriber more than Capacity events behind logs a lag
\* of n events, n at least the number it missed, and leaves the session
\* running at the oldest event the ring still holds, with nothing sent to
\* the peer; and every text frame forwarded is the event at the receiver's
\* position, still held by the ring, and a later event than every frame
\* forwarded before.
C4_LagIsASkip ==
    [][\A c \in Conns :
          (\E delivered \in BOOLEAN : Recv(c, delivered)) =>
              /\ Behind(c) > Capacity =>
                    /\ conn'[c].status = "running"
                    /\ Len(conn'[c].lags) = Len(conn[c].lags) + 1
                    /\ Front(conn'[c].lags) = conn[c].lags
                    /\ Last(conn'[c].lags) >= Cardinality(Missed(c))
                    /\ conn'[c].next = OldestHeld
                    /\ conn'[c].frames = conn[c].frames
              /\ Len(conn'[c].frames) > Len(conn[c].frames) =>
                    /\ conn[c].next \in Held
                    /\ conn'[c].next = conn[c].next + 1
                    /\ conn'[c].frames =
                          Append(conn[c].frames,
                                 hub.buffer[conn[c].next % Capacity].val)
                    /\ \A i \in 1..Len(conn[c].frames) :
                          conn[c].frames[i] < Last(conn'[c].frames)]_vars

\* C4 happens: a subscriber was forwarded the first event, fell more than
\* Capacity behind, was told it lagged by the one event it missed, and was
\* then forwarded the third event.
C4_Witness ==
    \E c \in Conns :
        /\ Running(c)
        /\ conn[c].lags = <<1>>
        /\ conn[c].frames = <<EventText(1), EventText(3)>>

---------------------------------------------------------------------------
(* Claims about start_server.                                              *)

IsSet(v) == v.kind # "unset"

NumberSet == Cardinality({name \in {"cert", "key"} :
                 IsSet(IF name = "cert" THEN boot.env_cert ELSE boot.env_key)})

Logged(line) == \E i \in 1..Len(boot.log) : boot.log[i] = line

Plaintext == Listener(UNSPECIFIED, boot.port, FALSE)

\* C10: when neither credential setting or exactly one of the two is set,
\* the only listener start_server ever has is the unencrypted one on all
\* interfaces at the configured port, which it has while it serves; when
\* exactly one is set the warning is logged, and start_server returns an
\* error only after a failed bind or a failed serve.
C10_OneOrNoneSetServesPlaintext ==
    boot.pc # "idle" /\ NumberSet <= 1 =>
        /\ boot.listeners \subseteq {Plaintext}
        /\ boot.pc = "serve" => boot.listeners = {Plaintext}
        /\ boot.pc \in {"bind", "serve", "returned"}
        /\ NumberSet = 1 => Logged(WARNING)
        /\ boot.result = "err" => Logged("FAILED to bind") \/ Logged("Axum serve error")

Loopback == Listener(LOCALHOST, boot.port, FALSE)

\* Both settings were read and the credential material loaded.
DualLoaded == Logged("TLS enabled") /\ ~Logged("FAILED to load TLS certs")

\* C11 as stated: with both credentials set and loaded, for every port p
\* the only listeners are the unencrypted one on the loopback interface at
\* p and the TLS one on all interfaces at p + 1, each bound while its
\* server serves, and p + 1 is a port.
C11_DualListenersEveryPort ==
    DualLoaded =>
        /\ boot.port + 1 < PortRange
        /\ boot.pc \in {"tls_bind", "tls_serve", "returned"}
        /\ boot.tls_port = boot.port + 1
        /\ boot.listeners \subseteq
              {Loopback, Listener(UNSPECIFIED, boot.port + 1, TRUE)}
        /\ boot.local = "serve" => Loopback \in boot.listeners
        /\ boot.pc = "tls_serve" =>
              Listener(UNSPECIFIED, boot.port + 1, TRUE) \in boot.listeners

\* C11: the same for every port p below the last one, 65535.
C11_DualListenersBelowLastPort ==
    DualLoaded /\ boot.port + 1 < PortRange =>
        /\ boot.pc \in {"tls_bind", "tls_serve", "returned"}
        /\ boot.tls_port = boot.port + 1
        /\ boot.listeners \subseteq
              {Loopback, Listener(UNSPECIFIED, boot.port + 1, TRUE)}
        /\ boot.local = "serve" => Loopback \in boot.listeners
        /\ boot.pc = "tls_serve" =>
              Listener(UNSPECIFIED, boot.port + 1, TRUE) \in boot.listeners

\* C11 happens: at port 65534 both listeners serve, the TLS one at 65535.
C11_Witness ==
    /\ DualLoaded
    /\ boot.port = PortRange - 2
    /\ boot.local = "serve" /\ boot.pc = "tls_serve"
    /\ boot.listeners = {Loopback, Listener(UNSPECIFIED, PortRange - 1, TRUE)}

---------------------------------------------------------------------------
(* Missing targets and a missing projects root. *)

\* The call's target: the project directory for get_tree (its path is
\* empty), the file for get_file and put_file.
TargetMissing == ~Canonicalize(fs, FullPath(last'.name, last'.path)).ok

RootMissing == ~Canonicalize(fs, ProjectsDir).ok

\* What the call's path resolves to.
Target == fs[Canonicalize(fs, FullPath(last'.name, last'.path)).path]

\* C12, as stated: whenever the target of get_tree, get_file or put_file
\* does not exist on disk, or the projects root does not exist, the result
\* is 404.
C12_MissingIsNotFound ==
    [][Handled({"tree", "get", "put"}) /\ (TargetMissing \/ RootMissing)
       => last'.status = NOT_FOUND]_vars

\* C12, amended: whenever the target does not exist on disk or the projects
\* root does not exist, get_file and put_file answer 404 when the projects
\* root resolves and 500 when it does not; get_tree answers 404, except
\* that it answers 500 when the root does not resolve and the project
\* directory it was asked for (under an absolute name) is a directory all
\* the same.
C12_MissingIsNotFoundUnderARoot ==
    [][Handled({"tree", "get", "put"}) /\ (TargetMissing \/ RootMissing)
       => last'.status =
             IF RootMissing
                /\ (last'.op = "tree" => ~TargetMissing /\ Target.kind = "dir")
             THEN INTERNAL_SERVER_ERROR ELSE NOT_FOUND]_vars

\* C12's case: there is no projects directory, and a read of alpha/n.md was
\* answered 500.
C12_Witness ==
    /\ ~Canonicalize(fs, ProjectsDir).ok
    /\ last.op = "get" /\ last.name = <<n_alpha>> /\ last.path = <<n_notes>>
    /\ last.status = INTERNAL_SERVER_ERROR

---------------------------------------------------------------------------
(* What get_file answers for what the guarded path refers to. *)

\* The code points of the text on the model's disks.
TextPoints == CodePoints \cup {104, 105}

\* `bytes` is the encoding of some text.
IsText(bytes) == \E s \in SeqsUpTo(TextPoints, Len(bytes)) : Utf8Encode(s) = bytes

\* The call's path passes the guard: it resolves, under the resolved
\* projects root.
Guarded ==
    LET c == Canonicalize(fs, FullPath(last'.name, last'.path))
        r == Canonicalize(fs, ProjectsDir)
    IN  c.ok /\ r.ok /\ IsPrefix(r.path, c.path)

\* C13: get_file answers 200 only when the guarded path refers to a regular
\* file whose whole content is text, and the content returned is that text;
\* a guarded path that refers to a directory is answered 404, a guarded file
\* whose bytes are not text is answered 500, and no error answer carries
\* content.
C13_ContentOnlyFromATextFile ==
    [][Handled({"get"}) =>
        /\ last'.status = OK =>
              /\ Guarded /\ Target.kind = "file"
              /\ Utf8Encode(last'.content) = Target.data
        /\ Guarded /\ Target.kind = "dir" => last'.status = NOT_FOUND
        /\ Guarded /\ Target.kind = "file" /\ ~IsText(Target.data)
              => last'.status = INTERNAL_SERVER_ERROR
        /\ last'.status # OK => last'.content = <<>>]_vars

\* C13's case: alpha/n.md holds the byte 255, which is not text, and a read
\* of it was answered 500 without content.
C13_Witness ==
    /\ fs[p_notes] = FileEntry(<<255>>)
    /\ last.op = "get" /\ last.name = <<n_alpha>> /\ last.path = <<n_notes>>
    /\ last.status = INTERNAL_SERVER_ERROR /\ last.content = <<>>

---------------------------------------------------------------------------
(* What ends a session and what does not. *)

\* The step ends session c, and the receiver goes with it.
Ends(c) == conn'[c].status = "ended" /\ hub'.rx_cnt = hub.rx_cnt - 1

\* The step leaves session c running with the same receiver, the same text
\* frames sent and the same lags logged.
Continues(c) ==
    /\ conn'[c].status = "running"
    /\ conn'[c].next = conn[c].next /\ conn'[c].since = conn[c].since
    /\ conn'[c].frames = conn[c].frames /\ conn'[c].lags = conn[c].lags
    /\ hub' = hub

\* The step is the loop of session c taking an event from its receiver and
\* failing to send the text frame to the peer.
EventNotDelivered(c) ==
    RecvResult(hub, conn[c].next).kind = "ok" /\ Recv(c, FALSE)

\* The parts of C14 that do not depend on whether a pong arrives.
SessionRules(c) ==
    /\ \A msg \in {CloseFrame, StreamEnd, StreamError}, pong_sent \in BOOLEAN :
          Inbound(c, msg, pong_sent) => Ends(c)
    /\ EventNotDelivered(c) => Ends(c)
    /\ \A msg \in InboundMsgs :
          msg.kind = "ping" /\ Inbound(c, msg, TRUE) =>
              Continues(c) /\ conn'[c].pongs = Append(conn[c].pongs, msg.data)
    /\ \A msg \in InboundMsgs, pong_sent \in BOOLEAN :
          msg.kind = "text" /\ Inbound(c, msg, pong_sent) =>
              Continues(c) /\ conn'[c].pongs = conn[c].pongs

\* C14, as stated: a close frame, an inbound error, the end of the inbound
\* stream and any failure to deliver an outbound message (an event's text
\* frame, or a pong) end the session; a ping is answered with a pong of the
\* same payload and the session continues; any other inbound frame changes
\* nothing in the session.
C14_AnySendFailureEnds ==
    [][\A c \in Conns :
          /\ SessionRules(c)
          /\ \A msg \in InboundMsgs :
                msg.kind = "ping" /\ Inbound(c, msg, FALSE) => Ends(c)]_vars

\* C14, amended: a close frame, an inbound error, the end of the inbound
\* stream and a failure to deliver an event's text frame end the session; a
\* ping is answered with a pong of the same payload and the session
\* continues, also when the pong cannot be delivered; any other inbound
\* frame changes nothing in the session.
C14_EventSendFailureEnds ==
    [][\A c \in Conns :
          /\ SessionRules(c)
          /\ \A msg \in InboundMsgs :
                msg.kind = "ping" /\ Inbound(c, msg, FALSE) =>
                    Continues(c) /\ conn'[c].pongs = conn[c].pongs]_vars

\* C14's case: session c1 has taken a ping whose pong could not be
\* delivered, and is running.
C14_Witness ==
    /\ conn["c1"].status = "running"
    /\ conn["c1"].inbound = [kind |-> "ping", data |-> <<1>>, pong_sent |-> FALSE]
    /\ conn["c1"].pongs = <<>>

---------------------------------------------------------------------------
(* Publishing and the subscribers. *)

\* The step hands one more event to the channel.
Publishes == hub'.published = hub.published + 1

---------------------------------------------------------------------------
(* A failure to load the credentials. *)

\* The step is start_server reading both settings and failing to load the
\* credentials they name.
LoadFails ==
    \E env_cert \in EnvValues("cert.pem"), env_key \in EnvValues("key.pem"),
       port \in Ports, overflow_checks \in BOOLEAN :
        /\ EnvVarOk(env_cert).some /\ EnvVarOk(env_key).some
        /\ StartServer(env_cert, env_key, port, FALSE, overflow_checks)

LoadFailed == Logged("FAILED to load TLS certs")

\* C16: when both credential paths are set and loading the credentials
\* fails, start_server returns an error, and from then on there is no
\* listener, bound or serving, and no task that would bind one.
C16_LoadFailureNoListener ==
    /\ [][LoadFails => LoadFailed' /\ boot'.pc = "returned"
                       /\ boot'.result = "err"]_vars
    /\ [](LoadFailed =>
            /\ boot.pc = "returned" /\ boot.result = "err"
            /\ boot.local = "none"
            /\ boot.listeners = {})

\* C16's case: both settings were set, the load has failed and start_server
\* has returned an error.
C16_Witness ==
    /\ NumberSet = 2 /\ LoadFailed
    /\ boot.pc = "returned" /\ boot.result = "err"
    /\ boot.listeners = {}

---------------------------------------------------------------------------
(* The two listeners of dual mode and their failures. *)

TlsListener == Listener(UNSPECIFIED, boot.tls_port, TRUE)

\* The step is the TLS listener failing, to bind or while serving.
TlsFails == TlsBind(FALSE) \/ TlsServeReturns(TRUE)

\* The step is the loopback listener failing, to bind or while serving.
LocalFails == LocalBind(FALSE) \/ LocalServeReturns(TRUE)

\* C17: in dual mode a bind or serve failure of the TLS listener is logged
\* and leaves the loopback listener as it was, a bind or serve failure of
\* the loopback listener is logged and leaves the TLS listener as it was,
\* and neither failure makes start_server give up: it returns no error.
C17_IndependentFailureDomains ==
    [][/\ TlsFails =>
            /\ Logged("Axum TLS serve error")'
            /\ boot'.local = boot.local
            /\ (Loopback \in boot.listeners <=> Loopback \in boot'.listeners)
            /\ boot'.result # "err"
       /\ LocalFails =>
            /\ Logged("FAILED to bind HTTP")' \/ Logged("HTTP serve error")'
            /\ boot'.pc = boot.pc
            /\ (TlsListener \in boot.listeners <=> TlsListener \in boot'.listeners)
            /\ boot'.result # "err"]_vars

---------------------------------------------------------------------------
(* Receivers and sessions. *)

RunningSessions == {c \in Conns : Running(c)}

\* C18: in every state the channel has as many receivers as there are
\* running sessions; the step that starts a session adds one receiver, at
\* the channel's position, the step that ends one (a close frame, the end of
\* the stream, an inbound error, a failed send) removes one, and either
\* step leaves every other session as it was.
C18_OneReceiverPerSession ==
    /\ [](hub.rx_cnt = Cardinality(RunningSessions))
    /\ [][\A c \in Conns :
            /\ ~Running(c) /\ Running(c)' =>
                  /\ hub'.rx_cnt = hub.rx_cnt + 1
                  /\ conn'[c].next = hub.pos
                  /\ \A d \in Conns \ {c} : conn'[d] = conn[d]
            /\ Running(c) /\ ~Running(c)' =>
                  /\ conn'[c].status = "ended"
                  /\ conn'[c].reason \in {"Client disconnected", "Client error",
                                          "Client disconnected (send failed)"}
                  /\ hub'.rx_cnt = hub.rx_cnt - 1
                  /\ \A d \in Conns \ {c} : conn'[d] = conn[d]]_vars

\* C18's case: c1 has ended on a failed send, c2 is running, and the channel
\* has one receiver.
C18_Witness ==
    /\ conn["c1"].status = "ended"
    /\ conn["c1"].reason = "Client disconnected (send failed)"
    /\ Running("c2")
    /\ hub.rx_cnt = 1

---------------------------------------------------------------------------
(* Failures and the log. *)

\* The records the two handlers log for an error.
ErrorRecords == {"Failed to read file", "PUT rejected - path traversal",
                 "PUT failed to write"}

\* C19: every get_file and put_file that is answered with an error status
\* (404, 403 or 500) has logged a record of that error before it answers.
C19_EveryFailureLogged ==
    [][Handled({"get", "put"}) /\ last'.status # OK
       => \E i \in 1..Len(last'.log) : last'.log[i] \in ErrorRecords]_vars

---------------------------------------------------------------------------
(* put_file's guard, its write, and the programs in between. *)

\* The step is the write of a put_file that passed its guard.
Writes == AtWrite /\ last'.status # 0

\* The places under the projects root as it resolves now.
UnderRoot ==
    LET r == Canonicalize(fs, ProjectsDir) IN
    {p \in Nodes : r.ok /\ IsPrefix(r.path, p)}

\* C20: whatever other programs have removed, renamed or replaced since the
\* guard, when put_file writes, the path it resolved is still under the
\* projects root and still names what the guard found there (a file, or a
\* directory, which the write then refuses: not nothing, not a symbolic
\* link); the write makes no new file and changes nothing outside the
\* projects root.
C20_CheckAndWriteAtomic ==
    [][Writes =>
          /\ last.canonical_path \in UnderRoot
          /\ fs[last.canonical_path].kind \in {"file", "dir"}
          /\ \A p \in Nodes : fs[p].kind = "none" => fs'[p].kind = "none"
          /\ \A p \in Nodes \ UnderRoot : fs'[p] = fs[p]]_vars

---------------------------------------------------------------------------
(* get_file's content and its size. *)

\* C21: in every successful get_file response the size is the length in
\* bytes of the content of the same response, whatever was written to the
\* file between the read of the content and the metadata call.
C21_SizeIsContentLength ==
    last.op = "get" /\ last.status = OK
        => last.size = Len(Utf8Encode(last.content))

---------------------------------------------------------------------------
(* C22 *)

\* The directories build_tree can reach from the project directory without
\* passing a symbolic link: the real directories of the project.
RealDirs ==
    {p \in Nodes :
        /\ IsPrefix(p_alpha, p)
        /\ \A k \in Len(p_alpha)..Len(p) : fs[SubSeq(p, 1, k)].kind = "dir"}

\* How deep the real directories nest below the project directory.
RealDepth ==
    CHOOSE d \in {Len(p) - Len(p_alpha) : p \in RealDirs} :
        \A p \in RealDirs : Len(p) - Len(p_alpha) <= d

WalkDone == walk.pc = "done"

\* Every call on the stack is on a real directory, the stack is no deeper
\* than the real directories nest, and what the listing says of a symbolic
\* link is a node that is no directory and has no children.
WalkKeepsToRealDirectories ==
    /\ \A i \in 1..Len(walk.stack) : walk.stack[i].dir \in RealDirs
    /\ Len(walk.stack) <= 1 + RealDepth
    /\ WalkDone =>
          \A n \in NodesOf(walk.result) :
              /\ p_alpha \o n.path \in Nodes
              /\ fs[p_alpha \o n.path].kind = "symlink" =>
                    ~n.is_dir /\ n.children = <<>>
              /\ n.is_dir => p_alpha \o n.path \in RealDirs

\* C22: build_tree returns on every disk, the disks with symbolic links
\* that close a cycle or lead out of the project included: an entry that is
\* a symbolic link is never taken for a directory and never called on, so
\* the calls nest no deeper than the real directories do.
C22_TerminatesOnLinkCycles ==
    /\ []WalkKeepsToRealDirectories
    /\ <>WalkDone

\* A listing returned for a project whose src/lib links back to the project
\* and whose docs links to src: both links are listed as files.
C22_Witness ==
    /\ WalkDone
    /\ fs[p_lib] = LinkTo("alpha")
    /\ fs[p_docs] = LinkTo("src")
    /\ \E n \in NodesOf(walk.result) : n.path = <<n_src, n_lib>> /\ ~n.is_dir
    /\ \E n \in NodesOf(walk.result) : n.path = <<n_docs>> /\ ~n.is_dir

====
